---- MODULE Spec2Model ----
(***************************************************************************)
(* Model of cabinet's stimulant-search engine                              *)
(* (src/src/cabinet/stimulant-search/algos.py): the CDC and Bettano rule   *)
(* sets evaluated over a table of free-text records, in traced and         *)
(* untraced mode.  Tables are sequences of named columns and rows of       *)
(* cells; texts and terms are strings, read character by character.        *)
(***************************************************************************)
EXTENDS Integers, Sequences, FiniteSets, TLC

VARIABLES table, call, pc, plan, original_cols, result, warned, error

vars == <<table, call, pc, plan, original_cols, result, warned, error>>

(***************************************************************************)
(* Bounds of the model.                                                    *)
(***************************************************************************)
\* largest number of vocabulary fragments in one record's text
MaxFragments == 1
\* largest number of rows of an input table
MaxRows == 2

(***************************************************************************)
(* Cells.  A cell is null, a string, an integer or a boolean; the three    *)
(* fields are always present so that any two cells can be compared.        *)
(***************************************************************************)
Null == [k |-> "null", s |-> <<>>, n |-> 0]
Str(s) == [k |-> "str", s |-> s, n |-> 0]
UInt(n) == [k |-> "int", s |-> <<>>, n |-> n]
Bool(b) == [k |-> "bool", s |-> <<>>, n |-> IF b THEN 1 ELSE 0]

IsNull(c) == c.k = "null"
IsTrue(c) == c.k = "bool" /\ c.n = 1
IsFalse(c) == c.k = "bool" /\ c.n = 0

\* polars `&`, `|` and `.is_not()` on nullable booleans (Kleene logic)
And3(a, b) ==
    IF IsFalse(a) \/ IsFalse(b) THEN Bool(FALSE)
    ELSE IF IsNull(a) \/ IsNull(b) THEN Null
    ELSE Bool(TRUE)

Or3(a, b) ==
    IF IsTrue(a) \/ IsTrue(b) THEN Bool(TRUE)
    ELSE IF IsNull(a) \/ IsNull(b) THEN Null
    ELSE Bool(FALSE)

Not3(a) == IF IsNull(a) THEN Null ELSE Bool(IsFalse(a))

\* polars `expr > 0` on a count (or on a boolean, which is cast to 0/1)
Gt0(c) == IF IsNull(c) THEN Null ELSE Bool(c.n > 0)

\* polars `expr > n` and `expr < n` on an integer column
GtN(c, n) == IF IsNull(c) THEN Null ELSE Bool(c.n > n)
LtN(c, n) == IF IsNull(c) THEN Null ELSE Bool(c.n < n)

\* pl.any(<several columns>): fold(lit(False), a | b) across the columns
AnyH(cells) ==
    IF \E c \in cells : IsTrue(c) THEN Bool(TRUE)
    ELSE IF \E c \in cells : IsNull(c) THEN Null
    ELSE Bool(FALSE)

Range(f) == {f[i] : i \in DOMAIN f}

(***************************************************************************)
(* Strings and regular expressions.                                        *)
(***************************************************************************)
\* the character at position i of a string
Char(s, i) == SubSeq(s, i, i)

UpperCase == [c \in {"T", "X"} |-> IF c = "T" THEN "t" ELSE "x"]
\* the (?i) flag: characters are compared after case folding
Lower(c) == IF c \in DOMAIN UpperCase THEN UpperCase[c] ELSE c

RECURSIVE EscapeDots(_)
\* item.replace(r".", r"\.")
EscapeDots(s) ==
    IF s = "" THEN ""
    ELSE IF Head(s) = "." THEN "\\." \o EscapeDots(Tail(s))
    ELSE Head(s) \o EscapeDots(Tail(s))

RECURSIVE RemoveDots(_)
\* code.replace(r".", "")
RemoveDots(s) ==
    IF s = "" THEN ""
    ELSE IF Head(s) = "." THEN RemoveDots(Tail(s))
    ELSE Head(s) \o RemoveDots(Tail(s))

RECURSIVE Parse(_)
\* the atoms of one alternative of a regex source: `\c` is the literal c,
\* an unescaped `.` matches any character, any other character is itself
Parse(src) ==
    IF src = "" THEN <<>>
    ELSE IF Head(src) = "\\" /\ Len(src) >= 2
         THEN <<[any |-> FALSE, c |-> Char(src, 2)]>> \o Parse(Tail(Tail(src)))
    ELSE IF Head(src) = "."
         THEN <<[any |-> TRUE, c |-> "."]>> \o Parse(Tail(src))
    ELSE <<[any |-> FALSE, c |-> Head(src)]>> \o Parse(Tail(src))

\* exrex.simplify(r"|".join(terms)): the alternation of the terms, each read
\* as regex source; a pattern is kept as the set of its alternatives (the
\* join of no term is the empty source, whose only alternative is empty)
make_regex(terms) ==
    IF terms = <<>> THEN {Parse("")} ELSE {Parse(t) : t \in Range(terms)}

\* the characters exrex generates for `.`
AnyChars ==
    {"a", "b", "c", "d", "e", "f", "g", "h", "i", "j", "k", "l", "m", "n",
     "o", "p", "r", "s", "t", "u", "v", "w", "x", "y", "z", "T", "X", "0",
     "4", "5", ".", " "}

RECURSIVE Generate(_)
Generate(atoms) ==
    IF atoms = <<>> THEN {""}
    ELSE LET heads == IF Head(atoms).any THEN AnyChars ELSE {Head(atoms).c}
         IN  {h \o rest : h \in heads, rest \in Generate(Tail(atoms))}

\* set(exrex.generate(regex)): every string the pattern matches
expand_regex(regex) == UNION {Generate(alt) : alt \in regex}

\* whether a regex source ends in an unbounded repetition
IsUnbounded(src) == src # "" /\ Char(src, Len(src)) \in {"*", "+"}

RECURSIVE Repeat(_, _)
\* k copies of the string s
Repeat(s, k) == IF k = 0 THEN "" ELSE s \o Repeat(s, k - 1)

\* set(exrex.generate(src)) for a source `<literals>c*` or `<literals>c+`:
\* the repetition is generated up to `limit` times
GenerateRepeated(src, limit) ==
    LET n == Len(src)
        lowest == IF Char(src, n) = "*" THEN 0 ELSE 1
    IN  {SubSeq(src, 1, n - 2) \o Repeat(Char(src, n - 1), k) : k \in lowest..limit}

AtomMatches(atom, ch) == atom.any \/ Lower(atom.c) = Lower(ch)

MatchAt(text, atoms, i) ==
    /\ i + Len(atoms) - 1 <= Len(text)
    /\ \A j \in 1..Len(atoms) : AtomMatches(atoms[j], Char(text, i + j - 1))

\* whether one alternative occurs somewhere in the text
Occurs(text, atoms) == \E i \in 1..(Len(text) + 1) : MatchAt(text, atoms, i)

RECURSIVE CountFrom(_, _, _)
\* leftmost non-overlapping matches of a non-empty alternative from i on
CountFrom(text, atoms, i) ==
    IF i + Len(atoms) - 1 > Len(text) THEN 0
    ELSE IF MatchAt(text, atoms, i)
         THEN 1 + CountFrom(text, atoms, i + Len(atoms))
    ELSE CountFrom(text, atoms, i + 1)

\* pl.col(text_col).str.contains(pattern=rf"(?i){pattern}", literal=False)
str_contains(cell, regex) ==
    IF IsNull(cell) THEN Null
    ELSE Bool(\E alt \in regex : Occurs(cell.s, alt))

\* pl.col(text_col).str.count_match(rf"(?i){term}"): the term string is
\* handed to the regex engine, so it is parsed as regex source again
str_count_match(cell, term) ==
    IF IsNull(cell) THEN Null
    ELSE UInt(CountFrom(cell.s, Parse(term), 1))

(***************************************************************************)
(* Tables (polars frames): cols is the ordered list of column names and    *)
(* each row maps every column name to a cell.                              *)
(***************************************************************************)
NoTable == [cols |-> <<>>, rows |-> <<>>]

RECURSIVE Dedup(_, _)
\* the names of `names` that are not in `seen`, each once, in order
Dedup(names, seen) ==
    IF names = <<>> THEN <<>>
    ELSE IF Head(names) \in seen THEN Dedup(Tail(names), seen)
    ELSE <<Head(names)>> \o Dedup(Tail(names), seen \cup {Head(names)})

\* df.with_columns([... .alias(name) for name in names]); values[i][name] is
\* the value of the expression aliased `name` on row i of df (every
\* expression reads the frame as it was before the call); a name that
\* already exists replaces that column in place, a new name is appended
with_columns(df, names, values) ==
    LET cols == df.cols \o Dedup(names, Range(df.cols))
        all == Range(cols)
        new == Range(names)
    IN  [cols |-> cols,
         rows |-> [i \in DOMAIN df.rows |->
                     [c \in all |->
                        IF c \in new THEN values[i][c] ELSE df.rows[i][c]]]]

\* df.select(names) / df.drop(columns=names)
select(df, names) ==
    [cols |-> names,
     rows |-> [i \in DOMAIN df.rows |-> [c \in Range(names) |-> df.rows[i][c]]]]

drop(df, names) ==
    select(df, SelectSeq(df.cols, LAMBDA c : c \notin names))

\* df.filter(pl.col(name)): keeps the rows whose value is true, in order
RECURSIVE FilterRows(_, _)
FilterRows(rows, name) ==
    IF rows = <<>> THEN <<>>
    ELSE IF IsTrue(Head(rows)[name])
         THEN <<Head(rows)>> \o FilterRows(Tail(rows), name)
    ELSE FilterRows(Tail(rows), name)

\* filter, with the predicate forgotten
filter_keep_all(df, name) == df

filter(df, name) == [cols |-> df.cols, rows |-> FilterRows(df.rows, name)]

\* df.with_row_count(name): a new first column numbering the rows from 0
with_row_count(df, name) ==
    [cols |-> <<name>> \o df.cols,
     rows |-> [i \in DOMAIN df.rows |->
                 [c \in Range(df.cols) \cup {name} |->
                    IF c = name THEN UInt(i - 1) ELSE df.rows[i][c]]]]

\* the name a right-hand column gets in a join
JoinedName(left, c) == IF c \in Range(left.cols) THEN c \o "_right" ELSE c

RECURSIVE LeftJoinRows(_, _, _, _)
\* for every left row in order: one output row per right row with the same
\* key, or a single row with nulls when there is none
LeftJoinRows(lrows, left, right, on) ==
    IF lrows = <<>> THEN <<>>
    ELSE LET l == Head(lrows)
             lcols == Range(left.cols)
             rcols == Range(right.cols) \ {on}
             source == [c \in {JoinedName(left, rc) : rc \in rcols} |->
                          CHOOSE rc \in rcols : JoinedName(left, rc) = c]
             outcols == lcols \cup DOMAIN source
             Merge(r) == [c \in outcols |->
                            IF c \in lcols THEN l[c] ELSE r[source[c]]]
             Nulls == [c \in outcols |-> IF c \in lcols THEN l[c] ELSE Null]
             hits == SelectSeq(right.rows, LAMBDA r : r[on] = l[on])
         IN  (IF hits = <<>> THEN <<Nulls>>
              ELSE [j \in DOMAIN hits |-> Merge(hits[j])])
             \o LeftJoinRows(Tail(lrows), left, right, on)

RECURSIVE InnerJoinRows(_, _, _, _)
InnerJoinRows(lrows, left, right, on) ==
    IF lrows = <<>> THEN <<>>
    ELSE LET l == Head(lrows)
             lcols == Range(left.cols)
             rcols == Range(right.cols) \ {on}
             source == [c \in {JoinedName(left, rc) : rc \in rcols} |->
                          CHOOSE rc \in rcols : JoinedName(left, rc) = c]
             outcols == lcols \cup DOMAIN source
             Merge(r) == [c \in outcols |->
                            IF c \in lcols THEN l[c] ELSE r[source[c]]]
             hits == SelectSeq(right.rows, LAMBDA r : r[on] = l[on])
         IN  [j \in DOMAIN hits |-> Merge(hits[j])]
             \o InnerJoinRows(Tail(lrows), left, right, on)

\* join_left, with how="inner"
join_inner(left, right, on) ==
    LET rcols == SelectSeq(right.cols, LAMBDA c : c # on)
    IN  [cols |-> left.cols \o [j \in DOMAIN rcols |-> JoinedName(left, rcols[j])],
         rows |-> InnerJoinRows(left.rows, left, right, on)]

\* join_left, with the j-th right row attached to the j-th left row whatever
\* its key is
join_by_position(left, right, on) ==
    LET rcols == SelectSeq(right.cols, LAMBDA c : c # on)
        Rekeyed(rows) ==
          [j \in DOMAIN rows |-> [rows[j] EXCEPT ![on] = left.rows[j][on]]]
    IN  [cols |-> left.cols \o [j \in DOMAIN rcols |-> JoinedName(left, rcols[j])],
         rows |-> LeftJoinRows(left.rows, left,
                               [right EXCEPT !.rows = Rekeyed(right.rows)], on)]

\* left.join(right, how="left", on=on)
join_left(left, right, on) ==
    LET rcols == SelectSeq(right.cols, LAMBDA c : c # on)
    IN  [cols |-> left.cols \o [j \in DOMAIN rcols |-> JoinedName(left, rcols[j])],
         rows |-> LeftJoinRows(left.rows, left, right, on)]

\* the column names selected by pl.col("^lvl<n>.*$|^row_count$")
LvlPrefixed(name, pfx) ==
    \E rest \in {"", "_crit1", "_crit2", "_crit3", "_crit4", "_crit5",
                    "_crit6", "_crit7", "_crit8", "_crit9", "_crit10",
                    "_crit11", "_crit12", "_crit13", "_crit5_lista",
                    "_crit5_listb", "_crit5_listc", "_crit5_needle",
                    "_crit5_syringe", "_crit5_shotup", "_crit5_presc",
                    "_crit5_snort", "_crit5_inject", "_crit5_crush",
                    "_crit5_misuse", "_crit5_recreational"} :
          name = pfx \o rest

\* HasCol, with the check always passing
HasCol_any(df, col) == TRUE

\* _check_col: whether the column is one of the table's columns
HasCol(df, col) == col \in Range(df.cols)

(***************************************************************************)
(* CDC rule set (cdc_patterns.json as loaded into CDCPatterns).            *)
(***************************************************************************)
CDCPatterns ==
    [codes |-> <<"t40.5">>,
     inclusion1 |-> <<"coke", "meth">>,
     inclusion2 |-> <<"od", "use">>,
     exclusion |-> <<"deny">>,
     crack |-> "crack",
     crack_pairs |-> <<"rib">>,
     rum |-> "rum",
     coke |-> "coke"]

\* CDCOptions.codes_regex: every code with its dots escaped and with its
\* dots removed
codes_regex ==
    make_regex([i \in 1..(2 * Len(CDCPatterns.codes)) |->
                  IF i % 2 = 1 THEN EscapeDots(CDCPatterns.codes[(i + 1) \div 2])
                  ELSE RemoveDots(CDCPatterns.codes[i \div 2])])

inclusion1_regex == make_regex(CDCPatterns.inclusion1)
inclusion2_regex == make_regex(CDCPatterns.inclusion2)
exclusion_regex == make_regex(CDCPatterns.exclusion)

codes_strings == expand_regex(codes_regex)
inclusion1_strings == expand_regex(inclusion1_regex)
inclusion2_strings == expand_regex(inclusion2_regex)
exclusion_strings == expand_regex(exclusion_regex)

\* CDCOptions.regex_steps: (column name, pattern) in evaluation order
regex_steps ==
    <<[name |-> "codes", pattern |-> codes_regex],
      [name |-> "inclusion1", pattern |-> inclusion1_regex],
      [name |-> "inclusion2", pattern |-> inclusion2_regex],
      [name |-> "exclusion", pattern |-> exclusion_regex],
      [name |-> "crack_pairs", pattern |-> make_regex(CDCPatterns.crack_pairs)],
      [name |-> "rum", pattern |-> {Parse(CDCPatterns.rum)}],
      [name |-> "coke", pattern |-> {Parse(CDCPatterns.coke)}],
      [name |-> "crack", pattern |-> {Parse(CDCPatterns.crack)}]>>

\* CDCOptions.all_terms: the strings that get one count column each
all_terms ==
    codes_strings \cup inclusion1_strings \cup inclusion2_strings
        \cup exclusion_strings \cup Range(CDCPatterns.crack_pairs)
        \cup {CDCPatterns.crack, CDCPatterns.rum, CDCPatterns.coke}

\* a set of names as a list (with_columns receives a list comprehension
\* over a set; the order is the set's iteration order)
RECURSIVE SetToSeq(_)
SetToSeq(S) ==
    IF S = {} THEN <<>>
    ELSE LET x == CHOOSE y \in S : TRUE IN <<x>> \o SetToSeq(S \ {x})

\* pl.any(pl.col(<columns>) > 0) on one row
AnyCount(row, cols) == AnyH({Gt0(row[c]) : c \in cols})

\* the CDC count columns, each named after its term, in the order they are
\* added
CdcTermCols == SetToSeq(all_terms)

RECURSIVE UntracedSteps(_, _, _)
UntracedSteps(df, text_col, steps) ==
    IF steps = <<>> THEN df
    ELSE UntracedSteps(
            with_columns(df, <<Head(steps).name>>,
                [r \in DOMAIN df.rows |->
                    [c \in {Head(steps).name} |->
                        str_contains(df.rows[r][text_col], Head(steps).pattern)]]),
            text_col, Tail(steps))

\* _cdc_untraced_query
_cdc_untraced_query(df, text_col) ==
    LET Combined(row) ==
          [c \in {"crack_exclude", "rum_coke"} |->
              IF c = "crack_exclude"
              THEN And3(Gt0(row["crack"]), AnyH({Gt0(row["crack_pairs"])}))
              ELSE And3(Gt0(row["rum"]), Gt0(row["coke"]))]
        Combine(frame) ==
          with_columns(frame, <<"crack_exclude", "rum_coke">>,
              [r \in DOMAIN frame.rows |-> Combined(frame.rows[r])])
    IN  Combine(UntracedSteps(df, text_col, regex_steps))

\* _cdc_traced_query
_cdc_traced_query(df, text_col) ==
    LET added == <<"codes", "inclusion1", "inclusion2", "exclusion",
                   "crack_exclude", "rum_coke">>
        Combined(row) ==
          [c \in Range(added) |->
              CASE c = "codes" -> AnyCount(row, codes_strings)
                [] c = "inclusion1" -> AnyCount(row, inclusion1_strings)
                [] c = "inclusion2" -> AnyCount(row, inclusion2_strings)
                [] c = "exclusion" -> AnyCount(row, exclusion_strings)
                [] c = "crack_exclude" ->
                      And3(Gt0(row[CDCPatterns.crack]),
                           AnyCount(row, Range(CDCPatterns.crack_pairs)))
                [] c = "rum_coke" ->
                      And3(Gt0(row[CDCPatterns.rum]),
                           Gt0(row[CDCPatterns.coke]))]
        Combine(counted) ==
          with_columns(counted, added,
              [r \in DOMAIN counted.rows |-> Combined(counted.rows[r])])
    IN  Combine(with_columns(df, CdcTermCols,
            [r \in DOMAIN df.rows |->
                [c \in Range(CdcTermCols) |->
                    str_count_match(df.rows[r][text_col], c)]]))

\* _resolve_cdc, with the exclusion tested before the codes
_resolve_cdc_exclusion_first(df) ==
    LET Signal(row) ==
          IF IsTrue(row["exclusion"]) THEN Bool(FALSE)
          ELSE IF IsTrue(row["codes"]) THEN Bool(TRUE)
          ELSE IF IsTrue(And3(And3(And3(row["inclusion1"], row["inclusion2"]),
                                   Not3(row["crack_exclude"])),
                              Not3(row["rum_coke"])))
               THEN Bool(TRUE)
          ELSE Bool(FALSE)
    IN  with_columns(df, <<"signal">>,
            [r \in DOMAIN df.rows |-> [c \in {"signal"} |-> Signal(df.rows[r])]])

\* _resolve_cdc
_resolve_cdc(df) ==
    LET Signal(row) ==
          IF IsTrue(row["codes"]) THEN Bool(TRUE)
          ELSE IF IsTrue(And3(And3(And3(And3(row["inclusion1"], row["inclusion2"]),
                                        Not3(row["exclusion"])),
                                   Not3(row["crack_exclude"])),
                              Not3(row["rum_coke"])))
               THEN Bool(TRUE)
          ELSE Bool(FALSE)
    IN  with_columns(df, <<"signal">>,
            [r \in DOMAIN df.rows |-> [c \in {"signal"} |-> Signal(df.rows[r])]])

CdcDropped ==
    {"codes", "inclusion1", "inclusion2", "exclusion", "crack_exclude",
     "rum_coke", "rum", "coke", "crack", "crack_pairs"}

\* search_cdc after its column check: the frame it returns
CdcFrame(df, text_col, tracing) ==
    IF tracing THEN _resolve_cdc(_cdc_traced_query(df, text_col))
    ELSE drop(_resolve_cdc(_cdc_untraced_query(df, text_col)), CdcDropped)

(***************************************************************************)
(* Bettano rule set (bettano_patterns.json as loaded into BettanoPatterns).*)
(***************************************************************************)
None == [none |-> TRUE, list |-> <<>>]
Some(l) == [none |-> FALSE, list |-> l]

SimpleCriteria(inc, exc) ==
    [type |-> "Simple", inclusion |-> inc, exclusion |-> exc]
DoublePositiveCriteria(inc1, inc2, exc) ==
    [type |-> "DoublePositive", inclusion1 |-> inc1, inclusion2 |-> inc2,
     exclusion |-> exc]
TripleNegativeCriteria(inc, exc1, exc2, exc3) ==
    [inclusion |-> inc, exclusion1 |-> exc1, exclusion2 |-> exc2,
     exclusion3 |-> exc3]
TwoPartCriteria(inc1, inc2, exc1, exc2) ==
    [type |-> "TwoPart", inclusion1 |-> inc1, inclusion2 |-> inc2,
     exclusion1 |-> exc1, exclusion2 |-> exc2]
TriplePositiveCriteria(inc1, inc2, inc3) ==
    [type |-> "TriplePositive", inclusion1 |-> inc1, inclusion2 |-> inc2,
     inclusion3 |-> inc3]

Criteria5ListB ==
    [needle |-> TripleNegativeCriteria(<<"needle">>, Some(<<"knit">>),
                                       Some(<<"sew">>), Some(<<"yarn">>)),
     syringe |-> TripleNegativeCriteria(<<"syringe">>, Some(<<"feed">>),
                                        Some(<<"oral">>), Some(<<"flush">>)),
     shotup |-> TripleNegativeCriteria(<<"shot">>, None, None, None),
     presc |-> TripleNegativeCriteria(<<"script">>, None, None, None),
     snort |-> TripleNegativeCriteria(<<"snort">>, None, None, None),
     inject |-> TripleNegativeCriteria(<<"inject">>, Some(<<"insulin">>),
                                       Some(<<"vaccine">>), Some(<<"botox">>)),
     crush |-> TripleNegativeCriteria(<<"crush">>, Some(<<"ice">>), None, None),
     misuse |-> TripleNegativeCriteria(<<"misuse">>, Some(<<"not">>), None, None),
     recreational |-> TripleNegativeCriteria(<<"rec">>, Some(<<"center">>),
                                             None, None)]

Criteria5 ==
    [type |-> "Criteria5", lista |-> <<"crack", "iv">>, listb |-> Criteria5ListB,
     listc |-> <<"rx">>]

Level1 ==
    <<SimpleCriteria(<<"coke">>, Some(<<"decoke">>)),
      SimpleCriteria(<<"meth">>, None),
      SimpleCriteria(<<"crack">>, Some(<<"rib">>)),
      SimpleCriteria(<<"od">>, None),
      SimpleCriteria(<<"speed">>, None),
      SimpleCriteria(<<"stim">>, Some(<<"deny">>))>>

Level2 ==
    <<SimpleCriteria(<<"meth">>, None),
      SimpleCriteria(<<"coke">>, Some(<<"rum">>)),
      SimpleCriteria(<<"binge">>, None),
      SimpleCriteria(<<"high">>, Some(<<"deny">>)),
      Criteria5,
      DoublePositiveCriteria(<<"od">>, <<"stim">>, <<"deny">>),
      SimpleCriteria(<<"speed">>, Some(<<"car">>))>>

Level3 ==
    <<SimpleCriteria(<<"amph">>, None),
      SimpleCriteria(<<"tweak">>, Some(<<"bike">>)),
      SimpleCriteria(<<"agitat">>, None),
      SimpleCriteria(<<"psych">>, Some(<<"hx">>)),
      SimpleCriteria(<<"tachy">>, None),
      TwoPartCriteria(<<"cp">>, <<"sob">>, <<"fall">>, <<"asthma">>),
      SimpleCriteria(<<"seiz">>, None),
      SimpleCriteria(<<"hallu">>, None),
      SimpleCriteria(<<"paran">>, None),
      SimpleCriteria(<<"manic">>, None),
      TriplePositiveCriteria(<<"arrest">>, <<"stroke">>, <<"infarct">>),
      SimpleCriteria(<<"hyper">>, None),
      SimpleCriteria(<<"rhabdo">>, None)>>

\* every term list of the rule set
ListsOfSub(b) ==
    {b.inclusion, b.exclusion1.list, b.exclusion2.list, b.exclusion3.list}

ListsOf(criteria) ==
    CASE criteria.type = "Simple" -> {criteria.inclusion, criteria.exclusion.list}
      [] criteria.type = "DoublePositive" ->
            {criteria.inclusion1, criteria.inclusion2, criteria.exclusion}
      [] criteria.type = "Criteria5" ->
            {criteria.lista, criteria.listc}
                \cup UNION {ListsOfSub(criteria.listb[n]) : n \in DOMAIN criteria.listb}
      [] criteria.type = "TwoPart" ->
            {criteria.inclusion1, criteria.inclusion2, criteria.exclusion1,
             criteria.exclusion2}
      [] criteria.type = "TriplePositive" ->
            {criteria.inclusion1, criteria.inclusion2, criteria.inclusion3}

ConfigLists ==
    UNION {UNION {ListsOf(lv[i]) : i \in DOMAIN lv} : lv \in {Level1, Level2, Level3}}

\* the *_strings accessors: the expansion of the pattern compiled from a
\* term list whose dots were escaped first (computed once per list)
EscapedStringsOf ==
    [list \in ConfigLists |->
        expand_regex(make_regex([i \in DOMAIN list |-> EscapeDots(list[i])]))]
EscapedStrings(list) == EscapedStringsOf[list]

\* the *_strings accessors of the lists that are compiled without escaping
RawStringsOf == [list \in ConfigLists |-> expand_regex(make_regex(list))]
RawStrings(list) == RawStringsOf[list]

\* an optional list's strings, {} standing for Python's None
OptEscapedStrings(opt) == IF opt.none THEN {} ELSE EscapedStrings(opt.list)
OptRawStrings(opt) == IF opt.none THEN {} ELSE RawStrings(opt.list)

\* Criteria5.all_words
all_words(crit) ==
    LET subs == Range([n \in DOMAIN crit.listb |-> crit.listb[n]])
        terms == Range(crit.lista) \cup Range(crit.listc)
                 \cup UNION {Range(b.inclusion) : b \in subs}
                 \cup UNION {Range(b.exclusion1.list) : b \in subs}
                 \cup UNION {Range(b.exclusion2.list) : b \in subs}
                 \cup UNION {Range(b.exclusion3.list) : b \in subs}
    IN  expand_regex({Parse(EscapeDots(t)) : t \in terms})

\* the strings one criterion contributes to get_combined_strings
CriteriaStrings(criteria) ==
    CASE criteria.type = "Simple" ->
            EscapedStrings(criteria.inclusion)
                \cup OptEscapedStrings(criteria.exclusion)
      [] criteria.type = "DoublePositive" ->
            EscapedStrings(criteria.inclusion1)
                \cup EscapedStrings(criteria.inclusion2)
                \cup EscapedStrings(criteria.exclusion)
      [] criteria.type = "Criteria5" -> all_words(criteria)
      [] criteria.type = "TwoPart" ->
            EscapedStrings(criteria.inclusion1)
                \cup EscapedStrings(criteria.inclusion2)
                \cup RawStrings(criteria.exclusion1)
                \cup RawStrings(criteria.exclusion2)
      [] criteria.type = "TriplePositive" ->
            EscapedStrings(criteria.inclusion1)
                \cup EscapedStrings(criteria.inclusion2)
                \cup EscapedStrings(criteria.inclusion3)

\* BettanoPatterns.levels
levels(depth) == SubSeq(<<Level1, Level2, Level3>>, 1, depth)

\* BettanoPatterns.get_combined_strings
get_combined_strings(depth) ==
    UNION {UNION {CriteriaStrings(lv[i]) : i \in DOMAIN lv} :
             lv \in Range(levels(depth))}

\* the Bettano count columns of each depth, each named after its term, in
\* the order they are added
BettanoTermCols == [d \in 1..3 |-> SetToSeq(get_combined_strings(d))]

(***************************************************************************)
(* Bettano level aggregation.                                              *)
(***************************************************************************)
Digits == <<"1", "2", "3", "4", "5", "6", "7", "8", "9", "10", "11", "12", "13">>

\* f"lvl{lvl}_crit{crit}"
CritCol(lvl, crit) == "lvl" \o Digits[lvl] \o "_crit" \o Digits[crit]

\* CritDigitCols, with the digits 6 to 9 left out
CritDigitCols_upto5(df, lvl) ==
    {c \in Range(df.cols) : \E d \in 1..5 : c = CritCol(lvl, d)}

\* CritDigitCols, with every column that starts with lvl<lvl>_crit selected
CritDigitCols_prefix(df, lvl) ==
    {c \in Range(df.cols) :
        c # "lvl" \o Digits[lvl] /\ LvlPrefixed(c, "lvl" \o Digits[lvl])}

\* the columns selected by pl.col(r"^lvl<lvl>_crit\d$"): one digit only
CritDigitCols(df, lvl) ==
    {c \in Range(df.cols) : \E d \in 1..9 : c = CritCol(lvl, d)}

\* _add_age_columns
_add_age_columns(df, age_col) ==
    with_columns(df, <<">14", "<46", "<55">>,
        [r \in DOMAIN df.rows |->
            [c \in {">14", "<46", "<55"} |->
                CASE c = ">14" -> GtN(df.rows[r][age_col], 14)
                  [] c = "<46" -> LtN(df.rows[r][age_col], 46)
                  [] c = "<55" -> LtN(df.rows[r][age_col], 55)]])

\* SimpleValue, with the exclusion list never read
SimpleValue_no_exclusion(row, criteria) ==
    AnyCount(row, EscapedStrings(criteria.inclusion))

\* the value _tag_simple_criteria computes for one row
SimpleValue(row, criteria) ==
    IF criteria.exclusion.none
    THEN AnyCount(row, EscapedStrings(criteria.inclusion))
    ELSE And3(AnyCount(row, EscapedStrings(criteria.inclusion)),
              Not3(AnyCount(row, EscapedStrings(criteria.exclusion.list))))

\* _tag_simple_criteria
_tag_simple_criteria(df, crit, lvl, criteria) ==
    with_columns(df, <<CritCol(lvl, crit)>>,
        [r \in DOMAIN df.rows |->
            [c \in {CritCol(lvl, crit)} |-> SimpleValue(df.rows[r], criteria)]])

RECURSIVE TagLevel1(_, _)
TagLevel1(df, i) ==
    IF i > Len(Level1) THEN df
    ELSE TagLevel1(_tag_simple_criteria(df, i, 1, Level1[i]), i + 1)

\* _aggregate_level1
_aggregate_level1(df) ==
    LET Aggregate(tagged) ==
          with_columns(tagged, <<"lvl1">>,
              [r \in DOMAIN tagged.rows |->
                  [c \in {"lvl1"} |->
                      AnyH({tagged.rows[r][x] : x \in CritDigitCols(tagged, 1)})]])
    IN  Aggregate(TagLevel1(df, 1))

\* inc & ~exc1 | (~exc2 & ~exc3) of a list-B sub-criterion
TripleNegValue(row, b) ==
    Or3(And3(AnyCount(row, EscapedStrings(b.inclusion)),
             Not3(AnyCount(row, OptRawStrings(b.exclusion1)))),
        And3(Not3(AnyCount(row, OptRawStrings(b.exclusion2))),
             Not3(AnyCount(row, OptRawStrings(b.exclusion3)))))

\* inc & ~exc1 of a list-B sub-criterion
SingleNegValue(row, b) ==
    And3(AnyCount(row, EscapedStrings(b.inclusion)),
         Not3(AnyCount(row, OptRawStrings(b.exclusion1))))

ListBCols ==
    <<"lvl2_crit5_needle", "lvl2_crit5_syringe", "lvl2_crit5_shotup",
      "lvl2_crit5_presc", "lvl2_crit5_snort", "lvl2_crit5_inject",
      "lvl2_crit5_crush", "lvl2_crit5_misuse", "lvl2_crit5_recreational">>

\* the final value of _handle_criteria5, without the snort branch
Criteria5Outcome_no_bypass(row) ==
    IF IsTrue(And3(row["lvl2_crit5_lista"], row["lvl2_crit5_listb"]))
    THEN IF IsTrue(Not3(row["lvl2_crit5_listc"])) THEN Bool(TRUE)
         ELSE Bool(FALSE)
    ELSE Bool(FALSE)

\* the final value of _handle_criteria5: the nested when/then/otherwise
Criteria5Outcome(row) ==
    IF IsTrue(And3(row["lvl2_crit5_lista"], row["lvl2_crit5_listb"]))
    THEN IF IsTrue(row["lvl2_crit5_snort"]) THEN Bool(TRUE)
         ELSE IF IsTrue(Not3(row["lvl2_crit5_listc"])) THEN Bool(TRUE)
         ELSE Bool(FALSE)
    ELSE Bool(FALSE)

\* _handle_criteria5
_handle_criteria5(df, crit) ==
    LET added == <<"lvl2_crit5_lista", "lvl2_crit5_listc">> \o ListBCols
        Part(row, c) ==
          CASE c = "lvl2_crit5_lista" -> AnyCount(row, Range(crit.lista))
            [] c = "lvl2_crit5_listc" -> AnyCount(row, Range(crit.listc))
            [] c = "lvl2_crit5_needle" -> TripleNegValue(row, crit.listb.needle)
            [] c = "lvl2_crit5_syringe" -> TripleNegValue(row, crit.listb.syringe)
            [] c = "lvl2_crit5_shotup" ->
                  AnyCount(row, EscapedStrings(crit.listb.shotup.inclusion))
            [] c = "lvl2_crit5_presc" ->
                  AnyCount(row, EscapedStrings(crit.listb.presc.inclusion))
            [] c = "lvl2_crit5_snort" ->
                  AnyCount(row, EscapedStrings(crit.listb.snort.inclusion))
            [] c = "lvl2_crit5_inject" -> TripleNegValue(row, crit.listb.inject)
            [] c = "lvl2_crit5_crush" -> SingleNegValue(row, crit.listb.crush)
            [] c = "lvl2_crit5_misuse" -> SingleNegValue(row, crit.listb.misuse)
            [] c = "lvl2_crit5_recreational" ->
                  SingleNegValue(row, crit.listb.recreational)
        WithFinal(withb) ==
          with_columns(withb, <<"lvl2_crit5">>,
              [r \in DOMAIN withb.rows |->
                  [c \in {"lvl2_crit5"} |-> Criteria5Outcome(withb.rows[r])]])
        WithListB(parts) ==
          with_columns(parts, <<"lvl2_crit5_listb">>,
              [r \in DOMAIN parts.rows |->
                  [c \in {"lvl2_crit5_listb"} |->
                      AnyH({parts.rows[r][x] : x \in Range(ListBCols)})]])
    IN  WithFinal(WithListB(
            with_columns(df, added,
                [r \in DOMAIN df.rows |->
                    [c \in Range(added) |-> Part(df.rows[r], c)]])))

\* the DoublePositiveCriteria branch of _aggregate_level2
DoublePositiveValue(row, criteria) ==
    And3(And3(AnyCount(row, EscapedStrings(criteria.inclusion1)),
              AnyCount(row, EscapedStrings(criteria.inclusion2))),
         Not3(AnyCount(row, EscapedStrings(criteria.exclusion))))

RECURSIVE TagLevel2(_, _)
TagLevel2(df, i) ==
    IF i > Len(Level2) THEN df
    ELSE TagLevel2(
           CASE Level2[i].type = "Simple" ->
                  _tag_simple_criteria(df, i, 2, Level2[i])
             [] Level2[i].type = "DoublePositive" ->
                  with_columns(df, <<CritCol(2, i)>>,
                      [r \in DOMAIN df.rows |->
                          [c \in {CritCol(2, i)} |->
                              DoublePositiveValue(df.rows[r], Level2[i])]])
             [] Level2[i].type = "Criteria5" -> _handle_criteria5(df, Level2[i])
             [] OTHER -> df,
           i + 1)

\* _aggregate_level2
_aggregate_level2(df) ==
    LET Aggregate(tagged) ==
          with_columns(tagged, <<"lvl2">>,
              [r \in DOMAIN tagged.rows |->
                  [c \in {"lvl2"} |->
                      And3(AnyH({tagged.rows[r][x] : x \in CritDigitCols(tagged, 2)}),
                           tagged.rows[r][">14"])]])
    IN  Aggregate(TagLevel2(df, 1))

\* _handle_triple_positive_age, with the two age gates left out
_handle_triple_positive_age_ungated(df, crit, crit_num) ==
    with_columns(df, <<CritCol(2, crit_num)>>,
        [r \in DOMAIN df.rows |->
            [c \in {CritCol(2, crit_num)} |->
                Bool(IsTrue(AnyCount(df.rows[r],
                        EscapedStrings(crit.inclusion1)
                            \cup EscapedStrings(crit.inclusion2)
                            \cup EscapedStrings(crit.inclusion3))))]])

\* _handle_triple_positive_age: the column is aliased lvl2_crit<crit_num>
_handle_triple_positive_age(df, crit, crit_num) ==
    LET Value(row) ==
          IF IsTrue(AnyCount(row, EscapedStrings(crit.inclusion1)))
          THEN Bool(TRUE)
          ELSE IF IsTrue(And3(AnyCount(row, EscapedStrings(crit.inclusion2)),
                              row["<46"]))
               THEN Bool(TRUE)
          ELSE IF IsTrue(And3(AnyCount(row, EscapedStrings(crit.inclusion3)),
                              row["<55"]))
               THEN Bool(TRUE)
          ELSE Bool(FALSE)
    IN  with_columns(df, <<CritCol(2, crit_num)>>,
            [r \in DOMAIN df.rows |->
                [c \in {CritCol(2, crit_num)} |-> Value(df.rows[r])]])

\* _handle_two_part, with either exclusion list blocking both parts
_handle_two_part_cross_blocked(df, crit, crit_num) ==
    LET Blocked(row) ==
          Or3(AnyCount(row, RawStrings(crit.exclusion1)),
              AnyCount(row, RawStrings(crit.exclusion2)))
        Value(row) ==
          Bool(IsTrue(And3(Or3(AnyCount(row, EscapedStrings(crit.inclusion1)),
                               AnyCount(row, EscapedStrings(crit.inclusion2))),
                           Not3(Blocked(row)))))
    IN  with_columns(df, <<"literal">>,
            [r \in DOMAIN df.rows |-> [c \in {"literal"} |-> Value(df.rows[r])]])

\* _handle_two_part: the expression has no alias, so the column takes the
\* name of the literal of its first branch
_handle_two_part(df, crit, crit_num) ==
    LET Value(row) ==
          IF IsTrue(And3(AnyCount(row, EscapedStrings(crit.inclusion1)),
                         Not3(AnyCount(row, RawStrings(crit.exclusion1)))))
          THEN Bool(TRUE)
          ELSE IF IsTrue(And3(AnyCount(row, EscapedStrings(crit.inclusion2)),
                              Not3(AnyCount(row, RawStrings(crit.exclusion2)))))
               THEN Bool(TRUE)
          ELSE Bool(FALSE)
    IN  with_columns(df, <<"literal">>,
            [r \in DOMAIN df.rows |-> [c \in {"literal"} |-> Value(df.rows[r])]])

RECURSIVE TagLevel3(_, _)
TagLevel3(df, i) ==
    IF i > Len(Level3) THEN df
    ELSE TagLevel3(
           CASE Level3[i].type = "Simple" ->
                  _tag_simple_criteria(df, i, 3, Level3[i])
             [] Level3[i].type = "TriplePositive" ->
                  _handle_triple_positive_age(df, Level3[i], i)
             [] Level3[i].type = "TwoPart" -> _handle_two_part(df, Level3[i], i)
             [] OTHER -> df,
           i + 1)

\* _aggregate_level3
_aggregate_level3(df) ==
    LET Aggregate(tagged) ==
          with_columns(tagged, <<"lvl3">>,
              [r \in DOMAIN tagged.rows |->
                  [c \in {"lvl3"} |->
                      And3(AnyH({tagged.rows[r][x] : x \in CritDigitCols(tagged, 3)}),
                           tagged.rows[r][">14"])]])
    IN  Aggregate(TagLevel3(df, 1))

(***************************************************************************)
(* search_bettano, stage by stage.                                         *)
(***************************************************************************)
NoCol == [none |-> TRUE, name |-> ""]
Col(name) == [none |-> FALSE, name |-> name]

\* OptionsError, with the depth test off by one
OptionsError_depth3(depth, age_col) == depth > 2 /\ age_col.none

\* BettanoOptions.check_age_col: the error it raises, if any
OptionsError(depth, age_col) == depth > 1 /\ age_col.none

\* OptionsWarns, with the warning tied to a missing age_col
OptionsWarns_inverted(depth, age_col) == depth = 1 /\ age_col.none

\* BettanoOptions.check_age_col: whether it warns that age_col is ignored
OptionsWarns(depth, age_col) == depth = 1 /\ ~age_col.none

\* the count_match columns search_bettano adds, one per combined string
TermFrame(df, text_col, depth) ==
    with_columns(df, BettanoTermCols[depth],
        [r \in DOMAIN df.rows |->
            [c \in Range(BettanoTermCols[depth]) |->
                str_count_match(df.rows[r][text_col], c)]])

\* lvl.select(pl.col("^lvl<n>.*$|^row_count$"))
SelectLevel(df, n) ==
    select(df, SelectSeq(df.cols,
        LAMBDA c : c = "row_count" \/ LvlPrefixed(c, "lvl" \o Digits[n])))

\* the `match config.depth` block of search_bettano (after the column
\* check of its cases 2 and 3)
LevelFrame(df, age_col, depth) ==
    IF depth = 1 THEN _aggregate_level1(df)
    ELSE LET Join(left, lvl, n) == join_left(left, SelectLevel(lvl, n), "row_count")
             Joined(base, lvl1, lvl2) ==
               IF depth = 2 THEN Join(Join(base, lvl1, 1), lvl2, 2)
               ELSE Join(Join(Join(base, lvl1, 1), lvl2, 2),
                         _aggregate_level3(filter(lvl2, "lvl2")), 3)
             FromLevel1(base, lvl1) ==
               Joined(base, lvl1, _aggregate_level2(filter(lvl1, "lvl1")))
             FromBase(base) == FromLevel1(base, _aggregate_level1(base))
         IN  drop(FromBase(with_row_count(_add_age_columns(df, age_col.name),
                                          "row_count")),
                  {"row_count"})

\* ShapeFrame, with the untraced level columns filled with false
ShapeFrame_fill_null(df, cols, depth, tracing) ==
    IF tracing THEN df
    ELSE LET added == SubSeq(<<"lvl1", "lvl2", "lvl3">>, 1, depth)
             Fill(frame) ==
               with_columns(frame, added,
                   [r \in DOMAIN frame.rows |->
                       [c \in Range(added) |->
                           IF IsNull(frame.rows[r][c]) THEN Bool(FALSE)
                           ELSE frame.rows[r][c]]])
         IN  Fill(select(df, cols \o added))

\* ShapeFrame, with the select forgotten
ShapeFrame_no_select(df, cols, depth, tracing) == df

\* the `match config.tracing` block of search_bettano
ShapeFrame(df, cols, depth, tracing) ==
    IF tracing THEN df
    ELSE select(df, cols \o SubSeq(<<"lvl1", "lvl2", "lvl3">>, 1, depth))

\* the table search_bettano returns when none of its checks fails
BettanoFrame(df, c) ==
    ShapeFrame(LevelFrame(TermFrame(df, c.search_col, c.depth), c.age_col, c.depth),
               df.cols, c.depth, c.tracing)

(***************************************************************************)
(* Input tables and calls.                                                 *)
(***************************************************************************)
Sp(a, b) == a \o " " \o b

\* the fragments a record's text is made of
Vocab ==
    <<"decoke", "od", "meth", "deny", "T40.5", "t40x5",
      Sp("coke", "od"), Sp("coke", "rum"), Sp("crack", "rib"),
      Sp("crack", "snort"), Sp("crack", "rx"), Sp("meth", "amph"),
      Sp("meth", "manic")>>

\* the ages of a table's first row: below and above the age gate of levels
\* 2 and 3 (the rows that follow it carry the ages around 46 and 55)
Ages == {10, 40}

RECURSIVE JoinWords(_)
\* the fragments of Vocab with the given indices, in index order, separated
\* by single spaces
JoinWords(S) ==
    IF S = {} THEN ""
    ELSE LET i == CHOOSE x \in S : \A y \in S : x <= y
         IN  IF S = {i} THEN Vocab[i]
             ELSE Vocab[i] \o " " \o JoinWords(S \ {i})

Texts ==
    {Str(JoinWords(S)) : S \in {X \in SUBSET DOMAIN Vocab : Cardinality(X) <= MaxFragments}}
        \cup {Null}

\* rows that may follow the first row of a table
Companions ==
    <<[text |-> Str(Sp("meth", "amph")), age |-> 50],
      [text |-> Str(Sp("crack", "rib")), age |-> 10],
      [text |-> Str(Sp("coke", "od")), age |-> 60]>>

BodyRows ==
    {<<[text |-> t, age |-> a]>> \o SubSeq(Companions, 1, k) :
        t \in Texts, a \in Ages, k \in 0..(MaxRows - 1)}

\* the columns of a table that a traced search_cdc has returned
TracedCdcCols ==
    CdcFrame([cols |-> <<"text">>, rows |-> <<>>], "text", TRUE).cols

\* the layouts of the input table: the text column, with or without an age
\* column, an identifier and a column named like an engine column, and the
\* table of an earlier traced search_cdc
Layouts ==
    {<<"id", "text", "age">>, <<"text">>, <<"text", "age", "codes">>,
     <<"text", "coke", "age">>, TracedCdcCols}

MakeTable(cols, body) ==
    [cols |-> cols,
     rows |-> [i \in DOMAIN body |->
                 [c \in Range(cols) |->
                    CASE c = "text" -> body[i].text
                      [] c = "age" -> UInt(body[i].age)
                      [] c = "id" -> UInt(100 + i)
                      [] OTHER -> Str("x")]]]

\* the bodies given to the layouts other than the first
LayoutBodies ==
    {<<[text |-> t, age |-> 40]>> \o SubSeq(Companions, 1, MaxRows - 1) :
        t \in {Str("T40.5"), Str(Sp("coke", "od")), Str(Sp("meth", "amph")), Null}}

Tables ==
    {MakeTable(<<"id", "text", "age">>, body) : body \in BodyRows}
        \cup {MakeTable(cols, body) : cols \in Layouts, body \in LayoutBodies}

Calls ==
    [fn : {"cdc"}, search_col : {"text", "note"}, age_col : {NoCol},
     tracing : BOOLEAN, depth : {1}]
    \cup
    [fn : {"bettano"}, search_col : {"text", "note"},
     age_col : {NoCol, Col("age")}, tracing : BOOLEAN, depth : 1..3]

NoCall ==
    [fn |-> "none", search_col |-> "", age_col |-> NoCol, tracing |-> FALSE,
     depth |-> 1]

(***************************************************************************)
(* The state machine: a caller holds a table, makes one call, and the      *)
(* call runs through the stages of search_cdc or search_bettano.           *)
(***************************************************************************)
Init ==
    /\ table \in Tables
    /\ call = NoCall
    /\ pc = "idle"
    /\ plan = NoTable
    /\ original_cols = <<>>
    /\ result = NoTable
    /\ warned = {}
    /\ error = "none"

\* the caller invokes search_cdc or search_bettano
Call ==
    /\ pc = "idle"
    /\ \E c \in Calls : call' = c
    /\ pc' = "start"
    /\ UNCHANGED <<table, plan, original_cols, result, warned, error>>

\* search_cdc: CDCOptions(...), _check_col, to_lazy
CdcSetup ==
    /\ pc = "start"
    /\ call.fn = "cdc"
    /\ IF HasCol(table, call.search_col)
       THEN /\ plan' = table
            /\ pc' = "lazy"
            /\ error' = error
       ELSE /\ error' = "ValueError: column not in DataFrame"
            /\ pc' = "error"
            /\ plan' = plan
    /\ UNCHANGED <<table, call, original_cols, result, warned>>

\* search_cdc, case False: untraced query, resolve, drop
CdcUntraced ==
    /\ pc = "lazy"
    /\ call.fn = "cdc"
    /\ ~call.tracing
    /\ plan' = CdcFrame(plan, call.search_col, FALSE)
    /\ result' = plan'
    /\ pc' = "done"
    /\ UNCHANGED <<table, call, original_cols, warned, error>>

\* search_cdc, case True: warning, traced query, resolve
CdcTraced ==
    /\ pc = "lazy"
    /\ call.fn = "cdc"
    /\ call.tracing
    /\ warned' = warned \cup {"RuntimeWarning: tracing"}
    /\ plan' = CdcFrame(plan, call.search_col, TRUE)
    /\ result' = plan'
    /\ pc' = "done"
    /\ UNCHANGED <<table, call, original_cols, error>>

\* search_bettano: BettanoOptions(...) with its root validator
BettanoOptions ==
    /\ pc = "start"
    /\ call.fn = "bettano"
    /\ IF OptionsError(call.depth, call.age_col)
       THEN /\ error' = "ValueError: age_col must be provided when depth > 1"
            /\ pc' = "error"
            /\ warned' = warned
       ELSE /\ warned' = IF OptionsWarns(call.depth, call.age_col)
                         THEN warned \cup {"UserWarning: age_col is not used"}
                         ELSE warned
            /\ pc' = "config"
            /\ error' = error
    /\ UNCHANGED <<table, call, plan, original_cols, result>>

\* search_bettano: _check_col, to_lazy, original_cols
BettanoSetup ==
    /\ pc = "config"
    /\ IF HasCol(table, call.search_col)
       THEN /\ plan' = table
            /\ original_cols' = table.cols
            /\ pc' = "lazy"
            /\ error' = error
       ELSE /\ error' = "ValueError: column not in DataFrame"
            /\ pc' = "error"
            /\ UNCHANGED <<plan, original_cols>>
    /\ UNCHANGED <<table, call, result, warned>>

\* search_bettano: one count column per term of the requested levels
BettanoSearchTerms ==
    /\ pc = "lazy"
    /\ call.fn = "bettano"
    /\ plan' = TermFrame(plan, call.search_col, call.depth)
    /\ pc' = "terms"
    /\ UNCHANGED <<table, call, original_cols, result, warned, error>>

\* search_bettano: `match config.depth`
BettanoAggregate ==
    /\ pc = "terms"
    /\ IF call.depth > 1 /\ call.age_col.none
       THEN /\ error' = "ValueError: age_col must be provided for depth >1"
            /\ pc' = "error"
            /\ plan' = plan
       ELSE IF call.depth > 1 /\ ~HasCol(table, call.age_col.name)
       THEN /\ error' = "ValueError: column not in DataFrame"
            /\ pc' = "error"
            /\ plan' = plan
       ELSE /\ plan' = LevelFrame(plan, call.age_col, call.depth)
            /\ pc' = "levels"
            /\ error' = error
    /\ UNCHANGED <<table, call, original_cols, result, warned>>

\* search_bettano: `match config.tracing` and return
BettanoReturn ==
    /\ pc = "levels"
    /\ plan' = ShapeFrame(plan, original_cols, call.depth, call.tracing)
    /\ result' = plan'
    /\ warned' = IF call.tracing THEN warned \cup {"RuntimeWarning: tracing"}
                 ELSE warned
    /\ pc' = "done"
    /\ UNCHANGED <<table, call, original_cols, error>>

Next ==
    \/ Call
    \/ CdcSetup
    \/ CdcUntraced
    \/ CdcTraced
    \/ BettanoOptions
    \/ BettanoSetup
    \/ BettanoSearchTerms
    \/ BettanoAggregate
    \/ BettanoReturn

Spec == Init /\ [][Next]_vars

(***************************************************************************)
(* Properties.                                                             *)
(***************************************************************************)
Column(df, c) == [i \in DOMAIN df.rows |-> df.rows[i][c]]

LevelCols(depth) == SubSeq(<<"lvl1", "lvl2", "lvl3">>, 1, depth)

CdcDone == pc = "done" /\ call.fn = "cdc"
BettanoDone == pc = "done" /\ call.fn = "bettano"
Flipped == [call EXCEPT !.tracing = ~call.tracing]

\* C1: search_cdc gives every row the same `signal` with tracing=True as
\* with tracing=False.
C1_CdcStrategiesAgree ==
    CdcDone =>
        Column(result, "signal")
            = Column(CdcFrame(table, call.search_col, ~call.tracing), "signal")

\* C2: search_bettano gives every row the same value in each of
\* lvl1..lvl<depth> with tracing=True as with tracing=False.
C2_BettanoStrategiesAgree ==
    BettanoDone =>
        LET other == BettanoFrame(table, Flipped)
        IN  \A c \in Range(LevelCols(call.depth)) :
                Column(result, c) = Column(other, c)

C2_Witness ==
    /\ BettanoDone
    /\ call.depth = 3
    /\ \E i \in DOMAIN result.rows : IsTrue(result.rows[i]["lvl3"])
    /\ \E i \in DOMAIN result.rows : IsNull(result.rows[i]["lvl3"])

\* C3: level monotonicity - in the output of search_bettano a row whose
\* level-K column is true has every shallower level column true.
C3_LevelMonotonicity ==
    BettanoDone =>
        \A i \in DOMAIN result.rows : \A K \in 1..call.depth : \A J \in 1..(K - 1) :
            IsTrue(result.rows[i][LevelCols(3)[K]])
                => IsTrue(result.rows[i][LevelCols(3)[J]])

C3_Witness ==
    /\ BettanoDone
    /\ call.depth = 3
    /\ \E i \in DOMAIN result.rows : IsTrue(result.rows[i]["lvl3"])
    /\ \E i \in DOMAIN result.rows :
          /\ ~IsTrue(result.rows[i]["lvl1"])
          /\ table.rows[i]["text"] = Str("decoke")

\* the input columns that no engine column is named after
KeyCols == {"id", "text", "age"}

\* C4: row preservation - the output of search_cdc and of search_bettano
\* has as many rows as the input, and its i-th row is the i-th input row.
C4_RowPreservation ==
    pc = "done" =>
        /\ Len(result.rows) = Len(table.rows)
        /\ \A i \in DOMAIN table.rows :
              \A c \in KeyCols \cap Range(table.cols) :
                  result.rows[i][c] = table.rows[i][c]

C4_Witness ==
    /\ BettanoDone
    /\ call.depth = 3
    /\ Len(table.rows) >= 2
    /\ ~IsTrue(result.rows[1]["lvl1"])
    /\ IsTrue(result.rows[2]["lvl3"])

\* C5: untraced search_bettano at depth D returns exactly the input columns
\* in their order followed by lvl1..lvlD.
C5_BettanoUntracedColumns ==
    (BettanoDone /\ ~call.tracing) =>
        result.cols = table.cols \o LevelCols(call.depth)

C5_Witness ==
    /\ BettanoDone
    /\ ~call.tracing
    /\ call.depth = 2
    /\ result.cols = <<"text", "coke", "age", "lvl1", "lvl2">>

\* C6: untraced search_cdc returns exactly the input columns in their order
\* followed by `signal`, also when an input column is named like an
\* intermediate column.
C6_CdcUntracedColumns ==
    (CdcDone /\ ~call.tracing) => result.cols = table.cols \o <<"signal">>

\* C7: in traced mode the output contains every input column and has more
\* columns than the untraced output: more than input + 1 for search_cdc,
\* more than input + depth for search_bettano.
C7_TracedColumns ==
    (pc = "done" /\ call.tracing) =>
        /\ Range(table.cols) \subseteq Range(result.cols)
        /\ Len(result.cols)
              > Len(table.cols) + (IF call.fn = "cdc" THEN 1 ELSE call.depth)
        /\ call.fn = "cdc" =>
              Len(result.cols) > Len(CdcFrame(table, call.search_col, FALSE).cols)
        /\ call.fn = "bettano" =>
              Len(result.cols) > Len(BettanoFrame(table, Flipped).cols)

\* C8: search_bettano with depth 2 or 3 and no age column fails before any
\* plan is built and returns no table; with an age column supplied the
\* depth/age validation does not fail.
C8_AgeRequiredBeyondDepth1 ==
    /\ (call.fn = "bettano" /\ call.depth > 1 /\ call.age_col.none /\ pc # "start")
          => (pc = "error" /\ plan = NoTable /\ result = NoTable
              /\ error = "ValueError: age_col must be provided when depth > 1")
    /\ (call.fn = "bettano" /\ ~call.age_col.none)
          => /\ error # "ValueError: age_col must be provided when depth > 1"
             /\ error # "ValueError: age_col must be provided for depth >1"

C8_Witness ==
    /\ pc = "error"
    /\ call.fn = "bettano"
    /\ call.depth = 2
    /\ call.age_col.none
    /\ call.search_col = "text"

\* C9: search_cdc and search_bettano fail and return nothing when the text
\* column is not a column of the table, and search_bettano at depth > 1
\* also fails when the named age column is not a column of the table.
C9_MissingColumnFails ==
    /\ (call.fn # "none" /\ ~(call.search_col \in Range(table.cols)))
          => (pc \in {"start", "config", "error"} /\ plan = NoTable
              /\ result = NoTable)
    /\ (call.fn = "bettano" /\ call.depth > 1 /\ ~call.age_col.none
        /\ ~(call.age_col.name \in Range(table.cols)))
          => (pc \in {"start", "config", "lazy", "terms", "error"}
              /\ result = NoTable)

C9_Witness ==
    /\ pc = "error"
    /\ call.fn = "bettano"
    /\ call.depth = 3
    /\ call.search_col = "text"
    /\ call.age_col = Col("age")
    /\ table.cols = <<"text">>
    /\ "rum" \in Range(plan.cols)

\* the table with every age replaced by 0
AgeBlind(df) ==
    [df EXCEPT !.rows = [i \in DOMAIN df.rows |->
        [c \in DOMAIN df.rows[i] |-> IF c = "age" THEN UInt(0) ELSE df.rows[i][c]]]]

\* C10: at depth 1 a supplied age column is ignored - a warning is emitted,
\* the call does not fail because of it, and the returned table is the one
\* returned without an age column, whatever the ages are and whether or not
\* the named column exists.
C10_AgeIgnoredAtDepth1 ==
    (call.fn = "bettano" /\ call.depth = 1 /\ ~call.age_col.none) =>
        /\ pc \notin {"idle", "start"} =>
              "UserWarning: age_col is not used" \in warned
        /\ (call.search_col \in Range(table.cols)) => pc # "error"
        /\ pc = "done" =>
              /\ result = BettanoFrame(table, [call EXCEPT !.age_col = NoCol])
              /\ Column(result, "lvl1")
                    = Column(BettanoFrame(AgeBlind(table), call), "lvl1")

C10_Witness ==
    /\ BettanoDone
    /\ call.depth = 1
    /\ call.age_col = Col("age")
    /\ table.cols = <<"text">>
    /\ \E i \in DOMAIN result.rows : IsTrue(result.rows[i]["lvl1"])

\* C11: in the table search_bettano returns at depth >= 2, a row that did
\* not pass level N-1 has the value false (not null) in the level-N column
\* and in every deeper level column.
C11_ExcludedRowsAreFalse ==
    BettanoDone =>
        \A i \in DOMAIN result.rows : \A N \in 2..call.depth :
            ~IsTrue(result.rows[i][LevelCols(3)[N - 1]]) =>
                \A M \in N..call.depth : IsFalse(result.rows[i][LevelCols(3)[M]])

\* C12: a row whose text is null or empty never makes a call fail and
\* matches nothing: search_cdc gives it signal = false and search_bettano
\* gives it lvl1 = false (not null).
C12_MissingTextMatchesNothing ==
    /\ (call.fn # "none" /\ call.search_col = "text"
        /\ (call.depth > 1 => call.age_col = Col("age") /\ HasCol(table, "age")))
          => pc # "error"
    /\ (pc = "done" /\ call.search_col = "text") =>
          \A i \in DOMAIN table.rows :
              (IsNull(table.rows[i]["text"]) \/ table.rows[i]["text"] = Str("")) =>
                  IF call.fn = "cdc" THEN IsFalse(result.rows[i]["signal"])
                  ELSE IsFalse(result.rows[i]["lvl1"])

(***************************************************************************)
(* search_cdc on records that mention several term groups at once.         *)
(***************************************************************************)
\* the most fragments a record's text is made of
MaxCdcFragments == 4

\* one fragment per term group of the CDC rule set
CdcVocab == <<"T40.5", "meth", "coke", "od", "deny", "crack", "rib", "rum">>

RECURSIVE JoinFragments(_, _)
\* the fragments of voc with the given indices, in index order, separated by
\* single spaces
JoinFragments(voc, S) ==
    IF S = {} THEN ""
    ELSE LET i == CHOOSE x \in S : \A y \in S : x <= y
         IN  IF S = {i} THEN voc[i]
             ELSE voc[i] \o " " \o JoinFragments(voc, S \ {i})

\* tables of one record, whose text is null or made of up to
\* MaxCdcFragments fragments
CdcTables ==
    {MakeTable(<<"id", "text">>, <<[text |-> t, age |-> 0]>>) :
        t \in {Str(JoinFragments(CdcVocab, S)) :
                 S \in {X \in SUBSET DOMAIN CdcVocab :
                           Cardinality(X) <= MaxCdcFragments}}
              \cup {Null}}

InitCdc ==
    /\ table \in CdcTables
    /\ call = NoCall
    /\ pc = "idle"
    /\ plan = NoTable
    /\ original_cols = <<>>
    /\ result = NoTable
    /\ warned = {}
    /\ error = "none"

\* the caller invokes search_cdc
CallCdc ==
    /\ pc = "idle"
    /\ \E c \in Calls : c.fn = "cdc" /\ call' = c
    /\ pc' = "start"
    /\ UNCHANGED <<table, plan, original_cols, result, warned, error>>

NextCdc ==
    \/ CallCdc
    \/ CdcSetup
    \/ CdcUntraced
    \/ CdcTraced

SpecCdc == InitCdc /\ [][NextCdc]_vars

\* whether a term group is matched by a text: its combined pattern is found
\* (untraced), or one of its expanded terms is counted at least once (traced)
Matched(text, tracing, regex, strings) ==
    IF tracing THEN \E t \in strings : IsTrue(Gt0(str_count_match(text, t)))
    ELSE IsTrue(str_contains(text, regex))

\* the CDC rule of the specification, on one text
CdcRule(text, tracing) ==
    LET M(terms) == Matched(text, tracing, make_regex(terms), Range(terms))
    IN  \/ Matched(text, tracing, codes_regex, codes_strings)
        \/ /\ M(CDCPatterns.inclusion1)
           /\ M(CDCPatterns.inclusion2)
           /\ ~M(CDCPatterns.exclusion)
           /\ ~(M(<<CDCPatterns.crack>>) /\ M(CDCPatterns.crack_pairs))
           /\ ~(M(<<CDCPatterns.rum>>) /\ M(<<CDCPatterns.coke>>))

\* C13: for every row the CDC signal equals codes_matched OR (inclusion1 AND
\* inclusion2 AND NOT exclusion AND NOT (crack AND a crack pair) AND NOT (rum
\* AND coke)); a code match gives true whatever the exclusions are.
C13_CdcSignalRule ==
    CdcDone =>
        \A i \in DOMAIN result.rows :
            result.rows[i]["signal"]
                = Bool(CdcRule(table.rows[i][call.search_col], call.tracing))

C13_Witness ==
    /\ CdcDone
    /\ table.rows[1]["text"] = Str("T40.5 meth od deny")
    /\ IsTrue(result.rows[1]["signal"])

(***************************************************************************)
(* make_regex and expand_regex on their own: a caller compiles a list of   *)
(* terms and expands the pattern, or expands a pattern it wrote itself.    *)
(***************************************************************************)
\* the most terms in a list
MaxTerms == 2

\* the most repetitions generated for an unbounded repetition
MaxRepeat == 3

TermPool == <<"coke", "meth", "t40.5", "i.v.", "od", "rx">>

\* the lists of terms: every set of one to MaxTerms terms of the pool
TermLists ==
    {SetToSeq({TermPool[i] : i \in S}) :
        S \in {X \in SUBSET DOMAIN TermPool : Cardinality(X) \in 1..MaxTerms}}

\* the calls: a list of terms to compile and expand, with or without
\* escaping its dots, or a pattern that repeats its last character without
\* bound to expand
RegexCalls ==
    [fn : {"make_regex"}, terms : TermLists, escape : BOOLEAN, pattern : {""}]
    \cup
    [fn : {"expand_regex"}, terms : {<<>>}, escape : {FALSE},
     pattern : {"speed*", "meth+", "x*", "od+"}]

InitRegex ==
    /\ table = NoTable
    /\ call \in RegexCalls
    /\ pc = "idle"
    /\ plan = {}
    /\ original_cols = <<>>
    /\ result = {}
    /\ warned = {}
    /\ error = "none"

\* make_regex(terms), or make_regex of the terms with their dots escaped
MakeRegex ==
    /\ pc = "idle"
    /\ call.fn = "make_regex"
    /\ plan' = IF call.escape
               THEN make_regex([i \in DOMAIN call.terms |-> EscapeDots(call.terms[i])])
               ELSE make_regex(call.terms)
    /\ pc' = "regex"
    /\ UNCHANGED <<table, call, original_cols, result, warned, error>>

\* expand_regex of the pattern make_regex returned
ExpandRegex ==
    /\ pc = "regex"
    /\ result' = expand_regex(plan)
    /\ pc' = "done"
    /\ UNCHANGED <<table, call, plan, original_cols, warned, error>>

\* expand_regex of a pattern with an unbounded repetition: no check is made,
\* the strings generated are returned
ExpandRepeated ==
    /\ pc = "idle"
    /\ call.fn = "expand_regex"
    /\ IsUnbounded(call.pattern)
    /\ result' = GenerateRepeated(call.pattern, MaxRepeat)
    /\ pc' = "done"
    /\ UNCHANGED <<table, call, plan, original_cols, warned, error>>

NextRegex ==
    \/ MakeRegex
    \/ ExpandRegex
    \/ ExpandRepeated

SpecRegex == InitRegex /\ [][NextRegex]_vars

\* C14: round trip - for any finite set T of terms and either dot-escaping
\* policy, expand_regex(make_regex(T)) is T as a set: no term is lost, added
\* or altered.
C14_RoundTrip ==
    (pc = "done" /\ call.fn = "make_regex") => result = Range(call.terms)

\* C15: expand_regex fails with a PatternExpansionError on a pattern with an
\* unbounded repetition instead of returning a finite set of terms.
C15_UnboundedPatternFails ==
    (call.fn = "expand_regex" /\ IsUnbounded(call.pattern) /\ pc # "idle") =>
        (pc = "error" /\ error = "PatternExpansionError" /\ result = {})

(***************************************************************************)
(* categorize_age (cleaning_drawer/normalize.py) on its own.               *)
(***************************************************************************)
\* the largest age, and the largest magnitude of a negative one, passed in
MaxAge == 70

\* the body of categorize_age
categorize_age(age) ==
    IF age < 18 THEN "<18"
    ELSE IF age <= 25 THEN "18-25"
    ELSE IF age <= 35 THEN "26-35"
    ELSE IF age <= 45 THEN "36-45"
    ELSE IF age <= 55 THEN "46-55"
    ELSE IF age <= 65 THEN "56-65"
    ELSE "65+"

InitAge ==
    /\ table = NoTable
    /\ call \in [fn : {"categorize_age"}, age : (-MaxAge)..MaxAge]
    /\ pc = "idle"
    /\ plan = NoTable
    /\ original_cols = <<>>
    /\ result = ""
    /\ warned = {}
    /\ error = "none"

\* @validate_arguments with age: PositiveInt, then the body
CategorizeAge ==
    /\ pc = "idle"
    /\ call.fn = "categorize_age"
    /\ IF call.age > 0
       THEN /\ result' = categorize_age(call.age)
            /\ pc' = "done"
            /\ error' = error
       ELSE /\ error' = "ValidationError"
            /\ pc' = "error"
            /\ result' = result
    /\ UNCHANGED <<table, call, plan, original_cols, warned>>

NextAge == CategorizeAge

SpecAge == InitAge /\ [][NextAge]_vars

\* C16: categorize_age maps every positive age to exactly one bucket -
\* 1..17 '<18', 18..25 '18-25', 26..35 '26-35', 36..45 '36-45', 46..55
\* '46-55', 56..65 '56-65', 66 and more '>65' - and rejects a negative age
\* with a validation error.
C16_AgeBuckets ==
    (call.fn = "categorize_age" /\ pc # "idle") =>
        /\ call.age < 0 => (pc = "error" /\ error = "ValidationError")
        /\ call.age > 0 =>
              /\ pc = "done"
              /\ result =
                    CASE call.age \in 1..17 -> "<18"
                      [] call.age \in 18..25 -> "18-25"
                      [] call.age \in 26..35 -> "26-35"
                      [] call.age \in 36..45 -> "36-45"
                      [] call.age \in 46..55 -> "46-55"
                      [] call.age \in 56..65 -> "56-65"
                      [] OTHER -> ">65"

(***************************************************************************)
(* The levels of search_bettano, criterion by criterion.                   *)
(***************************************************************************)
\* the most words a record's text is made of
MaxLevelFragments == 2

\* the inclusion words of the level-1 and level-2 criteria, with one
\* exclusion word and the words of criterion 5
LevelVocab ==
    <<"coke", "meth", "crack", "od", "speed", "stim", "deny", "binge", "high",
      "snort", "rx">>

\* tables of two records: one that fails level 1, then one whose text and
\* age vary
LevelTables ==
    {MakeTable(<<"id", "text", "age">>,
               <<[text |-> Str("decoke"), age |-> 40],
                 [text |-> Str(JoinFragments(LevelVocab, S)), age |-> a]>>) :
        S \in {X \in SUBSET DOMAIN LevelVocab : Cardinality(X) <= MaxLevelFragments},
        a \in Ages}

\* the most level-3 words a record's text is made of
MaxLevel3Fragments == 2

\* tables of two records: one that fails level 1, then one that passes
\* levels 1 and 2 through 'meth' and carries words of the TwoPart and the
\* TriplePositive criterion of level 3, at an age below 46, between 46 and
\* 54, or above 54
Level3Tables ==
    {MakeTable(<<"id", "text", "age">>,
               <<[text |-> Str("decoke"), age |-> 40],
                 [text |-> Str(Sp("meth",
                             JoinFragments(<<"arrest", "stroke", "infarct", "cp",
                                             "sob", "fall", "asthma">>, S))),
                  age |-> a]>>) :
        S \in {X \in SUBSET (1..7) : Cardinality(X) \in 1..MaxLevel3Fragments},
        a \in {40, 50, 60}}

\* the most fragments a record made for criterion 5 of level 2 is made of
MaxCriteria5Fragments == 3

\* tables of two records: one that fails level 1, then one made of words
\* of criterion 5 of level 2: a level-1 word outside list A, a list-A
\* word, the snort word, a list-C word, and the phrase that holds a second
\* or third exclusion of each list-B sub-criterion that has one
Criteria5Tables ==
    {MakeTable(<<"id", "text", "age">>,
               <<[text |-> Str("decoke"), age |-> 40],
                 [text |-> Str(JoinFragments(<<"meth", "crack", "snort", "rx",
                                               Sp("sew", Sp("oral", "vaccine"))>>, S)),
                  age |-> 40]>>) :
        S \in {X \in SUBSET (1..5) : Cardinality(X) \in 1..MaxCriteria5Fragments}}

InitLevels ==
    /\ table \in LevelTables \cup Level3Tables \cup Criteria5Tables
    /\ call = NoCall
    /\ pc = "idle"
    /\ plan = NoTable
    /\ original_cols = <<>>
    /\ result = NoTable
    /\ warned = {}
    /\ error = "none"

\* the caller invokes search_bettano on the text and age columns
CallBettano ==
    /\ pc = "idle"
    /\ \E c \in Calls :
          /\ c.fn = "bettano" /\ c.search_col = "text" /\ c.age_col = Col("age")
          /\ call' = c
    /\ pc' = "start"
    /\ UNCHANGED <<table, plan, original_cols, result, warned, error>>

NextLevels ==
    \/ CallBettano
    \/ BettanoOptions
    \/ BettanoSetup
    \/ BettanoSearchTerms
    \/ BettanoAggregate
    \/ BettanoReturn

SpecLevels == InitLevels /\ [][NextLevels]_vars

\* the frame search_bettano hands to level 1: counts, age gates, row_count
BaseFrame ==
    with_row_count(
        _add_age_columns(TermFrame(table, call.search_col, call.depth),
                         call.age_col.name),
        "row_count")

\* the rows level 3 is evaluated on, each with the outcome of every level-3
\* criterion
Level3Tagged ==
    LET Tag3(passed2) ==
          IF passed2.rows = <<>> THEN passed2 ELSE TagLevel3(passed2, 1)
        Tag2(passed1) ==
          IF passed1.rows = <<>> THEN passed1
          ELSE Tag3(filter(_aggregate_level2(passed1), "lvl2"))
    IN  Tag2(filter(_aggregate_level1(BaseFrame), "lvl1"))

\* the column that holds the outcome of the i-th level-3 criterion
Level3OutcomeCol(i) ==
    CASE Level3[i].type = "TwoPart" -> "literal"
      [] Level3[i].type = "TriplePositive" -> CritCol(2, i)
      [] OTHER -> CritCol(3, i)

\* C17: for every row level 3 is evaluated on, lvl3 is (the OR over the
\* outcomes of all 13 level-3 criteria, the TwoPart criterion 6, the
\* TriplePositive criterion 11 and the criteria 10, 12 and 13 included) AND
\* (age > 14).
C17_Level3Aggregation ==
    (BettanoDone /\ call.depth = 3) =>
        LET Holds(tagged) ==
              \A r \in DOMAIN tagged.rows :
                  result.rows[tagged.rows[r]["row_count"].n + 1]["lvl3"]
                      = Bool(/\ \E i \in DOMAIN Level3 :
                                   IsTrue(tagged.rows[r][Level3OutcomeCol(i)])
                             /\ IsTrue(tagged.rows[r][">14"]))
        IN  Holds(Level3Tagged)

\* the rows level 2 is evaluated on, each with the outcome of every level-2
\* criterion
Level2Tagged ==
    LET Tag2(passed1) ==
          IF passed1.rows = <<>> THEN passed1 ELSE TagLevel2(passed1, 1)
    IN  Tag2(filter(_aggregate_level1(BaseFrame), "lvl1"))

\* C18: for every row level 2 is evaluated on, lvl2 is (the OR over the
\* outcomes of the 7 level-2 criteria, criterion 5 counted by its final
\* value only) AND (age > 14); so no row with age <= 14 has lvl2 or lvl3
\* true.
C18_Level2Aggregation ==
    (BettanoDone /\ call.depth >= 2) =>
        /\ LET Age(r, tagged) ==
                  table.rows[tagged.rows[r]["row_count"].n + 1][call.age_col.name]
                Holds(tagged) ==
                  \A r \in DOMAIN tagged.rows :
                      result.rows[tagged.rows[r]["row_count"].n + 1]["lvl2"]
                          = Bool(/\ \E k \in DOMAIN Level2 :
                                       IsTrue(tagged.rows[r][CritCol(2, k)])
                                 /\ Age(r, tagged).n > 14)
            IN  Holds(Level2Tagged)
        /\ \A i \in DOMAIN result.rows :
              table.rows[i][call.age_col.name].n <= 14 =>
                  \A c \in Range(LevelCols(call.depth)) \ {"lvl1"} :
                      ~IsTrue(result.rows[i][c])

C18_Witness ==
    /\ BettanoDone
    /\ call.depth = 2
    /\ table.rows[2]["text"] = Str("crack rx")
    /\ table.rows[2]["age"] = UInt(40)
    /\ IsTrue(Level2Tagged.rows[1]["lvl2_crit5_lista"])
    /\ IsTrue(Level2Tagged.rows[1]["lvl2_crit5_needle"])
    /\ IsFalse(result.rows[2]["lvl2"])

\* every input row with the outcome of every level-1 criterion, computed
\* from the text alone
Level1Tagged == TagLevel1(TermFrame(table, call.search_col, 1), 1)

\* C19: for every input row, lvl1 is the OR over the outcomes of the 6
\* level-1 criteria, with no age gate.
C19_Level1Aggregation ==
    BettanoDone =>
        /\ Len(result.rows) = Len(table.rows)
        /\ LET Holds(tagged) ==
                  \A i \in DOMAIN table.rows :
                      /\ IsTrue(result.rows[i]["lvl1"]) <=>
                            \E k \in DOMAIN Level1 :
                                IsTrue(tagged.rows[i][CritCol(1, k)])
                      /\ IsFalse(result.rows[i]["lvl1"]) <=>
                            \A k \in DOMAIN Level1 :
                                IsFalse(tagged.rows[i][CritCol(1, k)])
            IN  Holds(Level1Tagged)

C19_Witness ==
    /\ BettanoDone
    /\ call.depth = 3
    /\ table.rows[2]["text"] = Str("stim")
    /\ table.rows[2]["age"] = UInt(10)
    /\ IsTrue(result.rows[2]["lvl1"])
    /\ IsFalse(result.rows[1]["lvl1"])

\* the frame level 2 computes on the rows that passed level 1
Level2Evaluated ==
    LET Aggregate(passed1) ==
          IF passed1.rows = <<>> THEN passed1 ELSE _aggregate_level2(passed1)
    IN  Aggregate(filter(_aggregate_level1(BaseFrame), "lvl1"))

\* the frame level 3 computes on the rows that passed level 2, given the
\* frame of level 2
Level3Evaluated(level2) ==
    LET Aggregate(passed2) ==
          IF passed2.rows = <<>> THEN passed2 ELSE _aggregate_level3(passed2)
    IN  Aggregate(filter(level2, "lvl2"))

\* C20: level chaining - level N (2 or 3) is evaluated only on the rows
\* whose level N-1 is true; in the returned table a row excluded at level
\* N-1 has null in every level-N column (per-criterion columns included, and
\* so in every deeper one), and a row that was evaluated has the values
\* computed for its own row identifier.
C20_LevelChaining ==
    BettanoDone =>
        LET Own(i, evaluated) ==
              {r \in DOMAIN evaluated.rows :
                  evaluated.rows[r]["row_count"] = UInt(i - 1)}
            Chained(N, evaluated, cols) ==
              /\ LevelCols(3)[N] \in cols
              /\ \A i \in DOMAIN result.rows :
                    IF IsTrue(result.rows[i][LevelCols(3)[N - 1]])
                    THEN /\ Cardinality(Own(i, evaluated)) = 1
                         /\ \A r \in Own(i, evaluated) : \A c \in cols :
                               result.rows[i][c] = evaluated.rows[r][c]
                    ELSE /\ Own(i, evaluated) = {}
                         /\ \A c \in cols : IsNull(result.rows[i][c])
            Cols(N) ==
              {c \in Range(result.cols) : LvlPrefixed(c, "lvl" \o Digits[N])}
            Levels(level2) ==
              /\ call.depth >= 2 => Chained(2, level2, Cols(2))
              /\ call.depth = 3 => Chained(3, Level3Evaluated(level2), Cols(3))
        IN  Levels(Level2Evaluated)

C20_Witness ==
    /\ BettanoDone
    /\ call.depth = 3
    /\ call.tracing
    /\ Len(result.rows) = 2
    /\ IsFalse(result.rows[1]["lvl1"])
    /\ IsNull(result.rows[1]["lvl2_crit1"])
    /\ IsNull(result.rows[1]["lvl3"])
    /\ IsTrue(result.rows[2]["lvl2_crit1"])
    /\ IsTrue(result.rows[2]["lvl3_crit1"])
    /\ IsTrue(result.rows[2]["lvl3"])

(***************************************************************************)
(* The criteria variants, each against its rule read on the text itself.   *)
(***************************************************************************)
\* whether one of the terms is a substring of the text, letter case ignored
Mentions(text, terms) ==
    \E t \in Range(terms) : \E i \in 1..Len(text) :
        /\ i + Len(t) - 1 <= Len(text)
        /\ \A j \in 1..Len(t) : Lower(Char(text, i + j - 1)) = Lower(Char(t, j))

\* the rule of a Simple criterion on one text
SimpleRule(text, crit) ==
    /\ Mentions(text, crit.inclusion)
    /\ crit.exclusion.none \/ ~Mentions(text, crit.exclusion.list)

\* C21: the outcome of a Simple criterion for a row that has a text is - an
\* inclusion term matched AND (the criterion has no exclusion list OR no
\* exclusion term matched); 'decoke' does not match the criterion that
\* includes 'coke' and excludes 'decoke'.
C21_SimpleCriterion ==
    BettanoDone =>
        LET Holds(tagged, lvl, criteria) ==
              \A r \in DOMAIN tagged.rows :
                  \A k \in {x \in DOMAIN criteria : criteria[x].type = "Simple"} :
                      ~IsNull(tagged.rows[r][call.search_col]) =>
                          tagged.rows[r][CritCol(lvl, k)]
                              = Bool(SimpleRule(tagged.rows[r][call.search_col].s,
                                                criteria[k]))
        IN  /\ Holds(Level1Tagged, 1, Level1)
            /\ call.depth >= 2 => Holds(Level2Tagged, 2, Level2)

C21_Witness ==
    /\ BettanoDone
    /\ call.depth = 2
    /\ table.rows[1]["text"] = Str("decoke")
    /\ IsFalse(Level1Tagged.rows[1]["lvl1_crit1"])
    /\ table.rows[2]["text"] = Str("coke high")
    /\ IsTrue(Level1Tagged.rows[2]["lvl1_crit1"])
    /\ IsTrue(Level2Tagged.rows[1]["lvl2_crit4"])

\* C22: the outcome of the TriplePositive criterion is inclusion1 OR
\* (inclusion2 AND age < 46) OR (inclusion3 AND age < 55); inclusion2 alone
\* at an age of 46 to 54 and inclusion3 alone at an age of 55 or more do not
\* match.
C22_TriplePositiveCriterion ==
    (BettanoDone /\ call.depth = 3) =>
        LET Rule(text, age, crit) ==
              \/ Mentions(text, crit.inclusion1)
              \/ Mentions(text, crit.inclusion2) /\ age < 46
              \/ Mentions(text, crit.inclusion3) /\ age < 55
            Holds(tagged) ==
              \A r \in DOMAIN tagged.rows :
                  \A k \in {x \in DOMAIN Level3 : Level3[x].type = "TriplePositive"} :
                      tagged.rows[r][Level3OutcomeCol(k)]
                          = Bool(Rule(tagged.rows[r][call.search_col].s,
                                      tagged.rows[r][call.age_col.name].n,
                                      Level3[k]))
        IN  Holds(Level3Tagged)

C22_Witness ==
    /\ BettanoDone
    /\ call.depth = 3
    /\ table.rows[2]["text"] = Str("meth stroke")
    /\ table.rows[2]["age"] = UInt(50)
    /\ IsFalse(Level3Tagged.rows[1][Level3OutcomeCol(11)])

\* C23: the outcome of the TwoPart criterion is true when inclusion1 matched
\* and no exclusion1 term matched, otherwise true when inclusion2 matched and
\* no exclusion2 term matched, otherwise false; exclusion1 never blocks the
\* second part and exclusion2 never blocks the first.
C23_TwoPartCriterion ==
    (BettanoDone /\ call.depth = 3) =>
        LET Rule(text, crit) ==
              \/ Mentions(text, crit.inclusion1) /\ ~Mentions(text, crit.exclusion1)
              \/ Mentions(text, crit.inclusion2) /\ ~Mentions(text, crit.exclusion2)
            Holds(tagged) ==
              \A r \in DOMAIN tagged.rows :
                  \A k \in {x \in DOMAIN Level3 : Level3[x].type = "TwoPart"} :
                      tagged.rows[r][Level3OutcomeCol(k)]
                          = Bool(Rule(tagged.rows[r][call.search_col].s, Level3[k]))
        IN  Holds(Level3Tagged)

C23_Witness ==
    /\ BettanoDone
    /\ call.depth = 3
    /\ table.rows[2]["text"] = Str("meth sob fall")
    /\ IsTrue(Level3Tagged.rows[1][Level3OutcomeCol(6)])

\* C24: criterion 5 of level 2 is true for a record exactly when list A
\* matched and list B matched and (the snort sub-criterion matched or list C
\* did not match).
C24_NestedMultiBranch ==
    (BettanoDone /\ call.depth >= 2) =>
        LET Rule(text, listb, crit) ==
              /\ Mentions(text, crit.lista)
              /\ listb
              /\ \/ Mentions(text, crit.listb.snort.inclusion)
                 \/ ~Mentions(text, crit.listc)
            Holds(tagged) ==
              \A r \in DOMAIN tagged.rows :
                  \A k \in {x \in DOMAIN Level2 : Level2[x].type = "Criteria5"} :
                      tagged.rows[r]["lvl2_crit5"]
                          = Bool(Rule(tagged.rows[r][call.search_col].s,
                                      IsTrue(tagged.rows[r]["lvl2_crit5_listb"]),
                                      Level2[k]))
        IN  Holds(Level2Tagged)

C24_Witness ==
    /\ BettanoDone
    /\ call.depth = 2
    /\ table.rows[2]["text"] = Str("crack snort rx")
    /\ IsTrue(Level2Tagged.rows[1]["lvl2_crit5"])

\* C25: each of the nine list-B sub-criteria evaluates to (inclusion matched
\* and exclusion1 absent) or (exclusion2 absent and exclusion3 absent), and
\* list B is the disjunction of the nine.
C25_ListBSubCriteria ==
    (BettanoDone /\ call.depth >= 2) =>
        LET Present(text, opt) == ~opt.none /\ Mentions(text, opt.list)
            Rule(text, b) ==
              \/ Mentions(text, b.inclusion) /\ ~Present(text, b.exclusion1)
              \/ ~Present(text, b.exclusion2) /\ ~Present(text, b.exclusion3)
            Subs(b) ==
              {<<"lvl2_crit5_needle", b.needle>>, <<"lvl2_crit5_syringe", b.syringe>>,
               <<"lvl2_crit5_shotup", b.shotup>>, <<"lvl2_crit5_presc", b.presc>>,
               <<"lvl2_crit5_snort", b.snort>>, <<"lvl2_crit5_inject", b.inject>>,
               <<"lvl2_crit5_crush", b.crush>>, <<"lvl2_crit5_misuse", b.misuse>>,
               <<"lvl2_crit5_recreational", b.recreational>>}
            Holds(tagged) ==
              \A r \in DOMAIN tagged.rows :
                  \A k \in {x \in DOMAIN Level2 : Level2[x].type = "Criteria5"} :
                      /\ \A sub \in Subs(Level2[k].listb) :
                             tagged.rows[r][sub[1]]
                                 = Bool(Rule(tagged.rows[r][call.search_col].s, sub[2]))
                      /\ tagged.rows[r]["lvl2_crit5_listb"]
                             = Bool(\E sub \in Subs(Level2[k].listb) :
                                        IsTrue(tagged.rows[r][sub[1]]))
        IN  Holds(Level2Tagged)

(***************************************************************************)
(* The term columns of criterion 5 of level 2: those get_combined_strings  *)
(* has materialized against those _handle_criteria5 reads, over rule sets  *)
(* whose list A and first needle exclusion are drawn from the term lists.  *)
(***************************************************************************)
\* the columns _handle_criteria5 reads: list A and list C as written, the
\* inclusion strings (dots escaped) and the exclusion strings (as written)
\* of the sub-criteria of list B
Criteria5Reads(crit) ==
    LET Inc(b) ==
          expand_regex(make_regex([i \in DOMAIN b.inclusion |->
                                      EscapeDots(b.inclusion[i])]))
        Exc(opt) == IF opt.none THEN {} ELSE expand_regex(make_regex(opt.list))
        Triple(b) == Inc(b) \cup Exc(b.exclusion1) \cup Exc(b.exclusion2)
                         \cup Exc(b.exclusion3)
        Single(b) == Inc(b) \cup Exc(b.exclusion1)
    IN  Range(crit.lista) \cup Range(crit.listc)
            \cup Triple(crit.listb.needle) \cup Triple(crit.listb.syringe)
            \cup Inc(crit.listb.shotup) \cup Inc(crit.listb.presc)
            \cup Inc(crit.listb.snort) \cup Triple(crit.listb.inject)
            \cup Single(crit.listb.crush) \cup Single(crit.listb.misuse)
            \cup Single(crit.listb.recreational)

InitWords ==
    /\ table = NoTable
    /\ call \in [fn : {"criteria5"},
                 crit : {[Criteria5 EXCEPT !.lista = a, !.listb.needle.exclusion1 = e] :
                            a \in TermLists,
                            e \in {None} \cup {Some(l) : l \in TermLists}}]
    /\ pc = "idle"
    /\ plan = {}
    /\ original_cols = <<>>
    /\ result = {}
    /\ warned = {}
    /\ error = "none"

\* get_combined_strings on criterion 5: the count columns search_bettano adds
CombineWords ==
    /\ pc = "idle"
    /\ call.fn = "criteria5"
    /\ plan' = all_words(call.crit)
    /\ pc' = "terms"
    /\ UNCHANGED <<table, call, original_cols, result, warned, error>>

\* _handle_criteria5: the count columns its expressions name; one that was
\* not added fails the query
ReadWords ==
    /\ pc = "terms"
    /\ call.fn = "criteria5"
    /\ result' = Criteria5Reads(call.crit)
    /\ IF result' \subseteq plan
       THEN pc' = "done" /\ error' = error
       ELSE pc' = "error" /\ error' = "ColumnNotFoundError"
    /\ UNCHANGED <<table, call, plan, original_cols, warned>>

NextWords ==
    \/ CombineWords
    \/ ReadWords

SpecWords == InitWords /\ [][NextWords]_vars

\* C26: every term column that a criterion of a requested level reads has
\* been materialized, one per expanded term of the rule set, before the
\* criterion is evaluated.
C26_TermColumnsMaterialized ==
    (call.fn = "criteria5" /\ pc \notin {"idle", "terms"}) =>
        /\ result \subseteq plan
        /\ pc = "done"

\* C27: in the output of search_cdc and search_bettano, in both tracing
\* modes, every input column keeps its input values for every row; no term
\* count, intermediate or level column overwrites an input column.
C27_InputColumnsKept ==
    pc = "done" =>
        /\ Len(result.rows) = Len(table.rows)
        /\ \A c \in Range(table.cols) :
               /\ c \in Range(result.cols)
               /\ \A r \in DOMAIN table.rows : result.rows[r][c] = table.rows[r][c]

\* C28: when level 3 is aggregated, the outcome of its i-th criterion is
\* stored in the column lvl3_crit<i>: every criterion writes one such column,
\* distinct criteria write distinct columns, and none writes a column of
\* another level's lvl<M>_crit namespace.
C28_CriterionColumns ==
    (BettanoDone /\ call.depth = 3) =>
        LET Holds(tagged3, tagged2) ==
              tagged3.rows # <<>> =>
                  Range(tagged3.cols) \ (Range(tagged2.cols) \cup {"lvl2"})
                      = {CritCol(3, i) : i \in DOMAIN Level3}
        IN  Holds(Level3Tagged, Level2Tagged)

(***************************************************************************)
(* MetaMap (umls_drawer/metamap.py): an object on which initialize() and   *)
(* run() are called in any order while the MetaMap servers start and stop. *)
(* table is the object, plan the two servers as `ps -ef` shows them,       *)
(* original_cols the events so far.                                        *)
(***************************************************************************)
\* the most events (status checks, launches, exits) of a run of calls
MaxEvents == 4

\* check_metamap_servers_status: both server names are in the process list
check_metamap_servers_status(servers) == servers.tagger /\ servers.wsd

InitMetaMap ==
    /\ table = [metamap_location |-> "public_mm", _initialized |-> FALSE]
    /\ call = NoCall
    /\ pc = "idle"
    /\ plan \in [tagger : BOOLEAN, wsd : BOOLEAN]
    /\ original_cols = <<>>
    /\ result = NoTable
    /\ warned = {}
    /\ error = "none"

\* a server starts or stops outside the calls
ServersChange ==
    /\ pc # "exited"
    /\ \E s \in [tagger : BOOLEAN, wsd : BOOLEAN] : s # plan /\ plan' = s
    /\ UNCHANGED <<table, call, pc, original_cols, result, warned, error>>

\* initialize(), up to the sleep: the servers run already, or both control
\* scripts are started, which may or may not bring each server up
Initialize ==
    /\ pc = "idle"
    /\ Len(original_cols) < MaxEvents
    /\ call' = [NoCall EXCEPT !.fn = "initialize"]
    /\ IF check_metamap_servers_status(plan)
       THEN /\ table' = [table EXCEPT !._initialized = TRUE]
            /\ original_cols' = Append(original_cols, "servers running")
            /\ warned' = warned \cup {"INFO: MetaMap servers are already running."}
            /\ pc' = "idle"
            /\ plan' = plan
       ELSE /\ original_cols' = Append(original_cols, "servers not running")
            /\ warned' = warned
                   \cup {"WARNING: MetaMap servers are not running. Starting servers now."}
            /\ \E s \in [tagger : BOOLEAN, wsd : BOOLEAN] : plan' = s
            /\ pc' = "waiting"
            /\ table' = table
    /\ UNCHANGED <<result, error>>

\* initialize(), after the sleep: the second status check
InitializeRecheck ==
    /\ pc = "waiting"
    /\ IF check_metamap_servers_status(plan)
       THEN /\ table' = [table EXCEPT !._initialized = TRUE]
            /\ original_cols' = Append(original_cols, "servers running")
            /\ warned' = warned \cup {"INFO: MetaMap servers are now running."}
       ELSE /\ table' = table
            /\ original_cols' = Append(original_cols, "servers not running")
            /\ warned' = warned \cup {"ERROR: MetaMap servers failed to start."}
    /\ pc' = "idle"
    /\ UNCHANGED <<call, plan, result, error>>

\* run(), launching metamap whether or not the object is initialized
Run_unguarded ==
    /\ pc = "idle"
    /\ Len(original_cols) < MaxEvents
    /\ \E t \in {"mmi", "json"} :
           /\ call' = [NoCall EXCEPT !.fn = "run:" \o t]
           /\ original_cols' = Append(original_cols, "metamap launched")
           /\ result' = [output_type |-> t]
           /\ UNCHANGED <<pc, warned, error>>
    /\ UNCHANGED <<table, plan>>

\* run(text, output_type): exits the process when the object is not
\* initialized, launches metamap on the text otherwise
Run ==
    /\ pc = "idle"
    /\ Len(original_cols) < MaxEvents
    /\ \E t \in {"mmi", "json"} :
           /\ call' = [NoCall EXCEPT !.fn = "run:" \o t]
           /\ IF ~table._initialized
              THEN /\ warned' = warned \cup {"ERROR: MetaMap is not initialized."}
                   /\ error' = "SystemExit: 1"
                   /\ pc' = "exited"
                   /\ original_cols' = Append(original_cols, "exit")
                   /\ result' = result
              ELSE /\ original_cols' = Append(original_cols, "metamap launched")
                   /\ result' = [output_type |-> t]
                   /\ UNCHANGED <<pc, warned, error>>
    /\ UNCHANGED <<table, plan>>

NextMetaMap ==
    \/ ServersChange
    \/ Initialize
    \/ InitializeRecheck
    \/ Run

SpecMetaMap == InitMetaMap /\ [][NextMetaMap]_vars

\* C29: over any sequence of initialize() and run() calls on a MetaMap
\* object, run() launches metamap only if an earlier initialize() observed
\* both servers running, and exits the process otherwise; the initialized
\* flag is set only by a status check that returned true and is never reset.
C29_RunOnlyAfterInitialized ==
    /\ [](\A i \in DOMAIN original_cols :
              original_cols[i] = "metamap launched" =>
                  \E j \in 1..(i - 1) : original_cols[j] = "servers running")
    /\ [](table._initialized <=>
              \E j \in DOMAIN original_cols : original_cols[j] = "servers running")
    /\ [][/\ table._initialized => table'._initialized
          /\ (~table._initialized /\ table'._initialized) =>
                 check_metamap_servers_status(plan)
          /\ \A e \in {"metamap launched", "exit"} :
                 original_cols' = Append(original_cols, e) =>
                     IF table._initialized
                     THEN e = "metamap launched" /\ pc' = "idle"
                     ELSE e = "exit" /\ pc' = "exited"]_vars

C29_Witness ==
    /\ Len(original_cols) = 4
    /\ original_cols[1] = "servers not running"
    /\ original_cols[2] = "servers not running"
    /\ original_cols[3] = "servers running"
    /\ original_cols[4] = "metamap launched"
    /\ ~check_metamap_servers_status(plan)

(***************************************************************************)
(* post_ner_many (umls_drawer/scispacy_ner.py): one task per text on the   *)
(* event loop, the requests answered in any order.  plan is the frame of   *)
(* _post_ner_many: the index i of the for loop, the set `tasks`, the tasks *)
(* as_completed still waits for (todo), the outcome of every finished      *)
(* task, and the queue of finished tasks as_completed yields from (done).  *)
(***************************************************************************)
\* the most texts submitted in one call
MaxTexts == 3

InitNer ==
    /\ table = NoTable
    /\ call \in [fn : {"post_ner_many"},
                 texts : UNION {[1..n -> {"coke", "meth"}] : n \in 0..MaxTexts},
                 with_progress : BOOLEAN]
    /\ pc = "for"
    /\ plan = [i |-> 0, tasks |-> {}, todo |-> {}, outcome |-> <<>>, done |-> <<>>]
    /\ original_cols = <<>>
    /\ result = <<>>
    /\ warned = {}
    /\ error = "none"

\* `for i, text in enumerate(texts)`: the next text's task is created, added
\* to `tasks` with tasks.discard as its done callback, and as_completed is
\* given the tasks now in the set (those already finished are yielded at
\* once); after the last text the results are returned
ForEachText ==
    /\ pc = "for"
    /\ IF plan.i < Len(call.texts)
       THEN /\ plan' = [plan EXCEPT
                          !.tasks = @ \cup {plan.i},
                          !.todo = plan.tasks \cup {plan.i},
                          !.done = SetToSeq(plan.tasks)]
            /\ pc' = "await"
            /\ warned' = IF call.with_progress THEN warned \cup {"tqdm"} ELSE warned
       ELSE /\ pc' = "done"
            /\ UNCHANGED <<plan, warned>>
    /\ UNCHANGED <<table, call, original_cols, result, error>>

\* a task finishes without its tasks.discard callback
TaskDone_no_discard ==
    /\ pc = "await"
    /\ \E t \in plan.todo \ DOMAIN plan.outcome :
           \E status \in {200, 500} :
               plan' = [plan EXCEPT
                          !.outcome = (t :> [status |-> status,
                                             data |-> <<[entity |-> call.texts[t + 1]]>>])
                                          @@ @,
                          !.done = Append(@, t)]
    /\ UNCHANGED <<table, call, pc, original_cols, result, warned, error>>

\* _post_ner of a task gets its response: the task finishes with the
\* response's status and data, and its done callbacks run in the order they
\* were added: tasks.discard, then the callback that queues it for
\* as_completed
TaskDone ==
    /\ pc = "await"
    /\ \E t \in plan.todo \ DOMAIN plan.outcome :
           \E status \in {200, 500} :
               plan' = [plan EXCEPT
                          !.outcome = (t :> [status |-> status,
                                             data |-> <<[entity |-> call.texts[t + 1]]>>])
                                          @@ @,
                          !.tasks = @ \ {t},
                          !.done = Append(@, t)]
    /\ UNCHANGED <<table, call, pc, original_cols, result, warned, error>>

\* `result = await task_result; results.append((i, result))` on the next
\* finished task: a status other than 200 raises; when as_completed is
\* exhausted the for loop goes on
AwaitResult ==
    /\ pc = "await"
    /\ plan.done # <<>>
    /\ LET t == Head(plan.done)
       IN  IF plan.outcome[t].status # 200
           THEN /\ pc' = "error"
                /\ error' = "Exception: Error: 500"
                /\ UNCHANGED <<plan, result>>
           ELSE /\ result' = Append(result, <<plan.i, plan.outcome[t].data>>)
                /\ plan' = [plan EXCEPT
                              !.todo = @ \ {t},
                              !.done = Tail(@),
                              !.i = IF plan.todo = {t} THEN @ + 1 ELSE @]
                /\ pc' = IF plan.todo = {t} THEN "for" ELSE "await"
                /\ error' = error
    /\ UNCHANGED <<table, call, original_cols, warned>>

NextNer ==
    \/ ForEachText
    \/ TaskDone
    \/ AwaitResult

SpecNer == InitNer /\ [][NextNer]_vars

\* C30: post_ner_many on n texts returns exactly n (index, result) entries,
\* one per input text, the index i paired with the NER result of texts[i],
\* whatever order the tasks complete in and for both with_progress settings.
C30_OneEntryPerText ==
    (call.fn = "post_ner_many" /\ pc = "done") =>
        /\ Len(result) = Len(call.texts)
        /\ \A k \in DOMAIN call.texts :
               result[k] = <<k - 1, <<[entity |-> call.texts[k]]>>>>

C30_Witness ==
    /\ call.fn = "post_ner_many"
    /\ pc = "done"
    /\ call.texts = <<"coke", "meth", "coke">>
    /\ call.with_progress
    /\ Len(result) = 3

====
